---- MODULE Spec2Model ----
(***************************************************************************)
(* Branchlore: git-style branching over SQLite files.                      *)
(*                                                                         *)
(* The model covers the two branch managers of the repository and the      *)
(* on-disk state they share the shape of:                                  *)
(*   - git.Repository (internal/git/git.go), used by the daemon and by the *)
(*     cobra commands init / branch / query / merge;                       *)
(*   - git.Manager (internal/git, CreateBranch/DeleteBranch/GetBranchPath) *)
(*     with database.Manager.ExecuteQuery on top of it.                    *)
(* One run uses one of the two (variable api), on one repository.          *)
(***************************************************************************)
EXTENDS Integers, Sequences, FiniteSets, TLC

(* ---------------------------------------------------------------------- *)
(* Bounds and input domains                                                *)
(* ---------------------------------------------------------------------- *)

\* number of commits the users of the branches make on top of the initial
\* one (merge commits come on top of these and are not counted)
MaxCommits == 2

\* number of times InitDatabase may start a history anew
MaxRootCommits == 2

\* branch names the callers use; every one is a valid git reference name
TrunkNames == {"main", "master"}
Names == {"main", "master", "feature"}

\* tracked files, in the order git reports them, and their content versions
FileSeq == <<"data", "init.txt">>
Files == {FileSeq[i] : i \in 1..Len(FileSeq)}
Contents == {1, 2}

None == "none"

(* ---------------------------------------------------------------------- *)
(* Paths: sequences of segments, joined the way filepath.Join does         *)
(* ---------------------------------------------------------------------- *)

RECURSIVE CleanFrom(_, _)
\* filepath.Clean on a segment list: "." and "" vanish, ".." pops
CleanFrom(done, rest) ==
    IF rest = <<>> THEN done
    ELSE LET s == Head(rest) IN
         IF s = "." \/ s = "" THEN CleanFrom(done, Tail(rest))
         ELSE IF s = ".." /\ done # <<>> /\ done[Len(done)] # ".."
              THEN CleanFrom(SubSeq(done, 1, Len(done) - 1), Tail(rest))
              ELSE CleanFrom(Append(done, s), Tail(rest))

Clean(p) == CleanFrom(<<>>, p)

Join(a, b) == Clean(a \o b)

\* a branch name as path segments ("feature" is one segment)
Seg(name) == <<name>>

\* absolute repository root (filepath.Abs(r.path)); Manager: dataDir/dbName
AbsRepoPath == <<"srv", "repo">>

\* types.DefaultWorktreeBase / types.DefaultDBFileName
DefaultWorktreeBase == "worktrees"
DefaultDBFileName == "db.sqlite"

\* config.Load: the configuration when no file and no environment variable
\* sets anything
DefaultConfig == [WorktreeBase |-> DefaultWorktreeBase,
                  DBFileName |-> DefaultDBFileName]

\* the configurations a file or BRANCHLORE_WORKTREE_BASE /
\* BRANCHLORE_DB_FILENAME can set (config.Load, config.LoadFromEnv)
WorktreeBases == {DefaultWorktreeBase, "trees"}
DBFileNames == {DefaultDBFileName, "data.db"}
Configs == [WorktreeBase : WorktreeBases, DBFileName : DBFileNames]

\* a directory in which no repository exists and none can be created
OtherRepoPath == <<"srv", "other">>

\* git.Manager.GetBranchPath
GetBranchPath(branch) ==
    IF branch = "main"
    THEN Join(AbsRepoPath, <<"main.db">>)
    ELSE Join(AbsRepoPath, <<"worktrees", branch, "main.db">>)

\* the directory git.Manager creates and removes for a branch
BranchDir(branch) == Join(AbsRepoPath, <<"worktrees", branch>>)

\* every database file path a caller can resolve
DBPaths == {Join(Join(Join(AbsRepoPath, <<w>>), Seg(b)), <<f>>) :
               w \in WorktreeBases, b \in Names, f \in DBFileNames}
              \cup {GetBranchPath(b) : b \in Names}

(* ---------------------------------------------------------------------- *)
(* State                                                                   *)
(* ---------------------------------------------------------------------- *)

VARIABLES
    api,        \* "repo": git.Repository is in use; "mgr": git.Manager
    config,     \* types.Config: [WorktreeBase, DBFileName]
    daemon,     \* the Daemon: its context and where its goroutines stand
    sim,        \* the MockSimulator: mu, its three maps, its callers
    now,        \* the wall clock (time.Now())
    path,       \* Repository.path, made absolute
    handle,     \* Repository.repo: "nil" or "open"
    everInit,   \* an Init call on this Repository value has returned nil
    initDone,   \* an Init call on this path has returned nil
    gitDir,     \* a git repository exists at the path
    trunk,      \* the branch the repository was created with
    commits,    \* the commit objects: <<[parents, tree]>>, id = index
    refs,       \* refs/heads/<name> -> commit id, 0 when there is none
    head,       \* the branch HEAD points at (primary working copy)
    merging,    \* the primary working copy holds an unresolved merge
    worktrees,  \* names b whose directory worktrees/<b> exists
    dbFiles,    \* database file path -> [exists, rows]
    conns,      \* database.Manager.conns: branch -> [state, rows]
    pc,         \* where each concurrent caller stands inside its call
    session,    \* the connect command's session: [conn, db, branch]
    last        \* the call that ran last and what it returned

disk == <<gitDir, trunk, commits, refs, head, merging, worktrees, dbFiles>>
vars == <<api, config, daemon, sim, now, path, handle, everInit, initDone, gitDir, trunk, commits, refs, head,
          merging, worktrees, dbFiles, conns, pc, session, last>>

\* storage.FileSystem.GetRepoPath: the configured root, made absolute
GetRepoPath == AbsRepoPath

\* storage.FileSystem.GetWorktreePath
GetWorktreePath(repoPath, branch) ==
    Join(Join(repoPath, <<config.WorktreeBase>>), Seg(branch))

GetDBPathBroken(worktreePath) == Join(AbsRepoPath, <<DefaultDBFileName>>)

\* storage.FileSystem.GetDBPath
GetDBPath(worktreePath) == Join(worktreePath, <<config.DBFileName>>)

\* the worktree path Repository.CreateWorktree computes
WorktreePath(branch) == Join(Join(path, <<"worktrees">>), Seg(branch))

(* ---------------------------------------------------------------------- *)
(* Results                                                                 *)
(* ---------------------------------------------------------------------- *)

ErrNone == "nil"
ErrNotInitialized == "repository not initialized"
ErrReferenceNotFound == "reference not found"
ErrExit == "exit status"
ErrIO == "io"
ErrProtected == "cannot delete main branch"
ErrNoRepo == "failed to open repository"
ErrNoBranch == "branch does not exist"
ErrDirty == "worktree contains unstaged changes"
ErrNothingToCommit == "failed to create initial commit"
ErrQuery == "unable to open database file"
ErrNoTable == "no such table: demo"

\* what a call returned; the fields a call does not set keep these values
Result(op, arg, arg2, err) ==
    [op |-> op, arg |-> arg, arg2 |-> arg2, err |-> err,
     adds |-> 0,            \* 'git worktree add' subprocesses it ran
     procs |-> 0,           \* subprocesses it ran, of any kind
     path |-> <<>>,         \* returned path
     name |-> None,         \* Branch.Name
     hash |-> 0,            \* Branch.Hash / current hash
     createdAt |-> 0,       \* Branch.CreatedAt
     isMain |-> FALSE,      \* Branch.IsMain
     branches |-> {},       \* ListBranches
     success |-> FALSE,     \* MergeResult.Success
     conflicts |-> <<>>,    \* MergeResult.Conflicts
     message |-> <<>>,      \* MergeResult.Message, as lines
     rows |-> {},           \* rows a query read
     fresh |-> FALSE,       \* the name had no reference when the call began
     trunkRev |-> 0,        \* the trunk's revision when the call began
     overlap |-> None,      \* how the two histories of a merge relate
     by |-> 0,              \* the concurrent caller, 0 for a lone caller
     prevPath |-> <<>>]     \* path the call before returned (see Return)

NoCall == Result("none", None, None, ErrNone)

\* types.Branch as CreateBranch / GetBranch / ListBranches build it
IsMainName(name) == name = "main" \/ name = "master"

\* commit.Author.When of the commit object with this hash (0 for a hash
\* that is no commit's)
AuthorWhen(hash) == IF hash \in DOMAIN commits THEN commits[hash].when ELSE 0

Branch(name, hash) ==
    [name |-> name, hash |-> hash, createdAt |-> AuthorWhen(hash),
     isMain |-> IsMainName(name)]

(* ---------------------------------------------------------------------- *)
(* The git object model                                                    *)
(* ---------------------------------------------------------------------- *)

CommitIds == 1..Len(commits)

\* tree of the initial commit: init.txt only
InitialTree == [f \in Files |-> IF f = "init.txt" THEN 1 ELSE 0]

RECURSIVE Ancestors(_)
\* the commits reachable from c, c included
Ancestors(c) == {c} \cup UNION {Ancestors(p) : p \in commits[c].parents}

IsAncestor(a, b) == a \in Ancestors(b)

\* a best common ancestor of a and b (the merge base)
MergeBase(a, b) ==
    LET common == Ancestors(a) \cap Ancestors(b)
        best == {c \in common : \A d \in common \ {c} : ~IsAncestor(c, d)}
    IN  CHOOSE c \in best : \A d \in best : d <= c

\* the files a three-way merge cannot settle: both sides changed them,
\* each to something else
ConflictFiles(base, ours, theirs) ==
    {f \in Files : /\ ours[f] # theirs[f]
                   /\ ours[f] # base[f]
                   /\ theirs[f] # base[f]}

\* the merged tree where there is no conflict
MergedTree(base, ours, theirs) ==
    [f \in Files |-> IF ours[f] = base[f] THEN theirs[f] ELSE ours[f]]

\* HEAD resolves to a commit
HeadHash == IF gitDir THEN refs[head] ELSE 0

(* ---------------------------------------------------------------------- *)
(* Initial state: nothing on disk, the Repository value just constructed   *)
(* ---------------------------------------------------------------------- *)

\* concurrent callers (request handlers of the daemon)
Procs == {1, 2}

\* a caller that is not inside a call
Idle == [at |-> "idle", source |-> None, target |-> None, ok |-> FALSE]

\* no connect command has run
NoSession == [conn |-> <<>>, db |-> <<>>, branch |-> <<>>]

NoFile == [exists |-> FALSE, schema |-> FALSE, rows |-> {}]

\* no entry in database.Manager.conns.  state: "none"; "cached" (handle in
\* the map, no connection made yet); "live" (connected to the file at the
\* branch's path); "stale" (connected to a file that has been unlinked,
\* whose rows are kept in rows)
NoConn == [state |-> "none", rows |-> {}, opens |-> 0]

\* the call returns r; a CreateWorktree that directly follows a successful
\* CreateWorktree of the same branch also notes the path that one returned
Return(r) ==
    last' = [r EXCEPT !.prevPath =
               IF /\ r.op = "CreateWorktree"
                  /\ last.op = "CreateWorktree"
                  /\ last.arg = r.arg
                  /\ last.err = ErrNone
               THEN last.path ELSE <<>>]

\* NewDaemon: nothing started.  start: what Start returned ("no": not
\* called); ctx: the context Start derived; mon, health: the maintenance
\* and health-check loops ("off", "wait": in their select, "done":
\* returned); http: the goroutine of HTTPServer.Start ("off", "starting",
\* "serving", "done"); stop: the call of Stop ("idle", "waiting", "returned")
NewDaemon == [start |-> "no", ctx |-> "live", mon |-> "off", health |-> "off",
              http |-> "off", stop |-> "idle"]

\* NewMockSimulator: mu unlocked (writer 0: nobody holds Lock), the three
\* maps empty, no caller inside a call.  metrics and dbs are functions on
\* the keys present; branches is the set of keys of s.branches.  Of a
\* caller: at ("idle"; "acquire": before the lock of its section; "access":
\* inside the section's map accesses; "release": after them; "crashed"),
\* sec (the section: "head", "op", "completed", "failed" of
\* SimulateOperations, "get" of GetMetrics), ops and i (the list and the
\* loop index), err (the operation returned an error).
NewMockSimulator ==
    [writer |-> 0, readers |-> {}, metrics |-> <<>>, branches |-> {},
     dbs |-> <<>>, calls |-> 0,
     at |-> [p \in Procs |-> "idle"], sec |-> [p \in Procs |-> None],
     ops |-> [p \in Procs |-> <<>>], i |-> [p \in Procs |-> 0],
     err |-> [p \in Procs |-> FALSE]]

\* the disk and the callers before anything has run
Blank ==
    /\ daemon = NewDaemon
    /\ sim = NewMockSimulator
    /\ path = AbsRepoPath
    /\ handle = "nil"
    /\ everInit = FALSE
    /\ initDone = FALSE
    /\ gitDir = FALSE
    /\ trunk = None
    /\ commits = <<>>
    /\ refs = [n \in Names |-> 0]
    /\ head = "master"
    /\ merging = FALSE
    /\ worktrees = {}
    /\ dbFiles = [p \in DBPaths |-> NoFile]
    /\ conns = [n \in Names |-> NoConn]
    /\ pc = [p \in Procs |-> Idle]
    /\ session = NoSession
    /\ last = NoCall

Init ==
    /\ api \in {"repo", "mgr"}
    /\ config = DefaultConfig
    /\ now = 0
    /\ Blank

\* latest reading of the clock
MaxClock == 2

\* time passes between two calls
Tick ==
    /\ now < MaxClock
    /\ now' = now + 1
    /\ UNCHANGED <<api, config, daemon, sim, path, handle, everInit, initDone, disk, conns, pc,
                   session, last>>

(* ---------------------------------------------------------------------- *)
(* git.Repository                                                          *)
(* ---------------------------------------------------------------------- *)

\* git.NewRepository: a fresh Repository value (a new command or process)
\* over whatever the disk holds
NewRepository ==
    /\ api = "repo"
    /\ handle' = "nil"
    /\ everInit' = FALSE
    /\ path' = AbsRepoPath
    /\ Return(Result("NewRepository", None, None, ErrNone))
    /\ UNCHANGED <<api, config, daemon, sim, now, pc, session, initDone, disk, conns>>

\* Repository.ensureInitialCommit on a repository whose HEAD is unborn
InitialCommit(dflt) ==
    /\ commits' = <<[when |-> now, parents |-> {}, tree |-> InitialTree]>>
    /\ refs' = [refs EXCEPT ![dflt] = 1]

InitOpenAlsoCommits(fault, dflt) ==
    /\ api = "repo"
    /\ IF gitDir
       THEN /\ handle' = "open"
            /\ everInit' = TRUE
            /\ initDone' = TRUE
            /\ Len(commits) < MaxRootCommits
            /\ commits' = Append(commits,
                            [when |-> now, parents |-> IF refs[head] = 0 THEN {} ELSE {refs[head]},
                             tree |-> InitialTree])
            /\ refs' = [refs EXCEPT ![head] = Len(commits) + 1]
            /\ Return(Result("Init", None, None, ErrNone))
            /\ UNCHANGED <<gitDir, trunk, head, merging, worktrees, dbFiles>>
       ELSE /\ fault = "none"
            /\ gitDir' = TRUE
            /\ trunk' = dflt
            /\ head' = dflt
            /\ InitialCommit(dflt)
            /\ handle' = "open"
            /\ everInit' = TRUE
            /\ initDone' = TRUE
            /\ Return(Result("Init", None, None, ErrNone))
            /\ UNCHANGED <<merging, worktrees, dbFiles>>
    /\ path' = AbsRepoPath
    /\ UNCHANGED <<api, config, daemon, sim, now, pc, session, conns>>

\* Repository.Init(path).  fault: where the file system lets the call down
\* ("init": PlainInit fails; "commit": the initial commit fails after the
\* repository was created).  dflt: the branch a new repository's HEAD names.
InitCall(fault, dflt) ==
    /\ api = "repo"
    /\ IF gitDir
       THEN \* PlainOpen succeeds: the repository is opened as it is
            /\ handle' = "open"
            /\ everInit' = TRUE
            /\ initDone' = TRUE
            /\ Return(Result("Init", None, None, ErrNone))
            /\ UNCHANGED disk
       ELSE CASE fault = "init" ->
                 /\ Return(Result("Init", None, None, ErrIO))
                 /\ UNCHANGED <<handle, everInit, initDone, disk>>
              [] fault = "commit" ->
                 /\ gitDir' = TRUE
                 /\ trunk' = dflt
                 /\ head' = dflt
                 /\ Return(Result("Init", None, None, ErrIO))
                 /\ UNCHANGED <<handle, everInit, initDone, commits, refs,
                                merging, worktrees, dbFiles>>
              [] OTHER ->
                 /\ gitDir' = TRUE
                 /\ trunk' = dflt
                 /\ head' = dflt
                 /\ InitialCommit(dflt)
                 /\ handle' = "open"
                 /\ everInit' = TRUE
                 /\ initDone' = TRUE
                 /\ Return(Result("Init", None, None, ErrNone))
                 /\ UNCHANGED <<merging, worktrees, dbFiles>>
    /\ path' = AbsRepoPath
    /\ UNCHANGED <<api, config, sim, now, pc, session, conns>>

\* Repository.Init(path) called by a command or a test
RepoInit(fault, dflt) ==
    /\ InitCall(fault, dflt)
    /\ UNCHANGED daemon

\* Repository.Init(OtherRepoPath): the path is stored, PlainOpen finds no
\* repository and PlainInit fails
RepoInitElsewhere ==
    /\ api = "repo"
    /\ path' = OtherRepoPath
    /\ Return(Result("Init", None, None, ErrIO))
    /\ UNCHANGED <<api, config, daemon, sim, now, pc, session, handle, everInit, initDone, disk, conns>>

CreateBranchNoGate(name) ==
    /\ api = "repo"
    /\ IF HeadHash = 0
       THEN /\ Return([Result("CreateBranch", name, None, ErrReferenceNotFound)
                         EXCEPT !.fresh = refs[name] = 0])
            /\ UNCHANGED refs
       ELSE /\ refs' = [refs EXCEPT ![name] = HeadHash]
            /\ Return([Result("CreateBranch", name, None, ErrNone)
                         EXCEPT !.name = name, !.hash = HeadHash,
                                !.createdAt = now,
                                !.isMain = IsMainName(name),
                                !.fresh = refs[name] = 0,
                                !.trunkRev = refs[trunk]])
    /\ UNCHANGED <<api, config, daemon, sim, now, path, pc, session, handle, everInit, initDone, gitDir, trunk, commits, head,
                   merging, worktrees, dbFiles, conns>>

\* Repository.CreateBranch(name)
RepoCreateBranch(name) ==
    /\ api = "repo"
    /\ IF handle = "nil"
       THEN /\ Return(Result("CreateBranch", name, None, ErrNotInitialized))
            /\ UNCHANGED refs
       ELSE IF HeadHash = 0
       THEN /\ Return([Result("CreateBranch", name, None, ErrReferenceNotFound)
                         EXCEPT !.fresh = refs[name] = 0])
            /\ UNCHANGED refs
       ELSE /\ refs' = [refs EXCEPT ![name] = HeadHash]
            /\ Return([Result("CreateBranch", name, None, ErrNone)
                         EXCEPT !.name = name, !.hash = HeadHash,
                                !.createdAt = now,
                                !.isMain = IsMainName(name),
                                !.fresh = refs[name] = 0,
                                !.trunkRev = refs[trunk]])
    /\ UNCHANGED <<api, config, daemon, sim, now, path, pc, session, handle, everInit, initDone, gitDir, trunk, commits, head,
                   merging, worktrees, dbFiles, conns>>

GetBranchOrHead(name) ==
    /\ api = "repo"
    /\ IF handle = "nil"
       THEN Return(Result("GetBranch", name, None, ErrNotInitialized))
       ELSE IF refs[name] = 0 /\ HeadHash = 0
       THEN Return(Result("GetBranch", name, None, ErrReferenceNotFound))
       ELSE Return([Result("GetBranch", name, None, ErrNone)
                      EXCEPT !.name = name,
                             !.hash = IF refs[name] = 0 THEN HeadHash ELSE refs[name],
                             !.createdAt =
                                 AuthorWhen(IF refs[name] = 0 THEN HeadHash
                                            ELSE refs[name]),
                             !.isMain = IsMainName(name)])
    /\ UNCHANGED <<api, config, daemon, sim, now, path, pc, session, handle, everInit, initDone, disk, conns>>

\* Repository.GetBranch(name)
RepoGetBranch(name) ==
    /\ api = "repo"
    /\ IF handle = "nil"
       THEN Return(Result("GetBranch", name, None, ErrNotInitialized))
       ELSE IF refs[name] = 0
       THEN Return(Result("GetBranch", name, None, ErrReferenceNotFound))
       ELSE Return([Result("GetBranch", name, None, ErrNone)
                      EXCEPT !.name = name, !.hash = refs[name],
                             !.createdAt = AuthorWhen(refs[name]),
                             !.isMain = IsMainName(name)])
    /\ UNCHANGED <<api, config, daemon, sim, now, path, pc, session, handle, everInit, initDone, disk, conns>>

\* Repository.ListBranches()
RepoListBranches ==
    /\ api = "repo"
    /\ IF handle = "nil"
       THEN Return(Result("ListBranches", None, None, ErrNotInitialized))
       ELSE Return([Result("ListBranches", None, None, ErrNone)
                      EXCEPT !.branches =
                          {Branch(n, refs[n]) : n \in {m \in Names : refs[m] # 0}}])
    /\ UNCHANGED <<api, config, daemon, sim, now, path, pc, session, handle, everInit, initDone, disk, conns>>

\* Repository.GetCurrentHash()
RepoGetCurrentHash ==
    /\ api = "repo"
    /\ IF handle = "nil"
       THEN Return(Result("GetCurrentHash", None, None, ErrNotInitialized))
       ELSE IF HeadHash = 0
       THEN Return(Result("GetCurrentHash", None, None, ErrReferenceNotFound))
       ELSE Return([Result("GetCurrentHash", None, None, ErrNone)
                      EXCEPT !.hash = HeadHash])
    /\ UNCHANGED <<api, config, daemon, sim, now, path, pc, session, handle, everInit, initDone, disk, conns>>

\* os.Stat(path) finds a directory
DirExists(dir) == \E b \in worktrees : BranchDir(b) = dir

\* 'git worktree add <path> <branch>' exits 0: the branch exists and no
\* working copy has it checked out
WorktreeAddOk(branch) ==
    /\ path = AbsRepoPath
    /\ gitDir
    /\ refs[branch] # 0
    /\ branch # head
    /\ branch \notin worktrees

CreateWorktreeNoStat(branch) ==
    IF handle = "nil"
    THEN [err |-> ErrNotInitialized, path |-> <<>>, adds |-> 0, wts |-> worktrees]
    ELSE IF WorktreeAddOk(branch)
    THEN [err |-> ErrNone, path |-> WorktreePath(branch), adds |-> 1,
          wts |-> worktrees \cup {branch}]
    ELSE [err |-> ErrExit, path |-> <<>>, adds |-> 1, wts |-> worktrees]

\* what Repository.CreateWorktree(branch) returns and leaves behind
CreateWorktreeOutcome(branch) ==
    IF handle = "nil"
    THEN [err |-> ErrNotInitialized, path |-> <<>>, adds |-> 0, wts |-> worktrees]
    ELSE IF DirExists(WorktreePath(branch))
    THEN [err |-> ErrNone, path |-> WorktreePath(branch), adds |-> 0,
          wts |-> worktrees]
    ELSE IF WorktreeAddOk(branch)
    THEN [err |-> ErrNone, path |-> WorktreePath(branch), adds |-> 1,
          wts |-> worktrees \cup {branch}]
    ELSE [err |-> ErrExit, path |-> <<>>, adds |-> 1, wts |-> worktrees]

CreateWorktreeSingle(branch) ==
    /\ api = "repo"
    /\ LET o == CreateWorktreeOutcome(branch) IN
         /\ worktrees' = IF o.adds = 1 /\ o.err = ErrNone THEN {branch} ELSE o.wts
         /\ Return([Result("CreateWorktree", branch, None, o.err)
                      EXCEPT !.path = o.path, !.adds = o.adds, !.procs = o.adds])
    /\ UNCHANGED <<api, config, daemon, sim, now, path, pc, session, handle, everInit, initDone, gitDir, trunk, commits, refs,
                   head, merging, dbFiles, conns>>

\* Repository.CreateWorktree(branch)
RepoCreateWorktree(branch) ==
    /\ api = "repo"
    /\ LET o == CreateWorktreeOutcome(branch) IN
         /\ worktrees' = o.wts
         /\ Return([Result("CreateWorktree", branch, None, o.err)
                      EXCEPT !.path = o.path, !.adds = o.adds, !.procs = o.adds])
    /\ UNCHANGED <<api, config, daemon, sim, now, path, pc, session, handle, everInit, initDone, gitDir, trunk, commits, refs,
                   head, merging, dbFiles, conns>>

\* SQLiteDB.Open on a database file: sql.Open and Ping, which creates the
\* file when there is none
Open(file) == [file EXCEPT !.exists = TRUE]

\* FileSystem.PathExists on a database file
PathExists(file) == file.exists

\* SQLiteDB.InitSchema: the tables demo and _branchlore_metadata
InitSchema(file) == [file EXCEPT !.schema = TRUE]

\* the query command / repo.QueryBranch after Init: resolve the branch to
\* its database file, open it, initialize the schema if no file is found,
\* run the statement.  kind "write" adds a row to a table of the user's,
\* "read" returns the rows, "demo" is an INSERT INTO demo.
RepoQuery(branch, kind) ==
    /\ api = "repo"
    /\ handle = "open"
    /\ LET o == CreateWorktreeOutcome(branch)
           dbPath == GetDBPath(o.path)
       IN  /\ worktrees' = o.wts
           /\ IF o.err # ErrNone
              THEN /\ Return([Result("Query", branch, kind, o.err)
                                EXCEPT !.adds = o.adds, !.procs = o.adds])
                   /\ UNCHANGED dbFiles
              ELSE LET old == dbFiles[dbPath]
                       opened == Open(old)
                       ready == IF ~PathExists(opened) THEN InitSchema(opened)
                                ELSE opened
                       failed == kind = "demo" /\ ~ready.schema
                       new == [ready EXCEPT !.rows =
                                  IF kind \in {"write", "demo"} /\ ~failed
                                  THEN old.rows \cup {branch}
                                  ELSE old.rows]
                   IN  /\ dbFiles' = [dbFiles EXCEPT ![dbPath] = new]
                       /\ Return([Result("Query", branch, kind,
                                         IF failed THEN ErrNoTable ELSE ErrNone)
                                    EXCEPT !.adds = o.adds, !.procs = o.adds,
                                           !.path = dbPath,
                                           !.rows = IF kind = "read"
                                                    THEN old.rows ELSE {}])
    /\ UNCHANGED <<api, config, daemon, sim, now, path, pc, session, handle, everInit, initDone, gitDir, trunk, commits, refs,
                   head, merging, conns>>

\* HTTPServer.getBranch: the status of a branch, with the path of its
\* database file
HTTPGetBranch(name) ==
    /\ api = "repo"
    /\ IF handle = "nil"
       THEN Return(Result("getBranch", name, None, ErrNotInitialized))
       ELSE IF refs[name] = 0
       THEN Return(Result("getBranch", name, None, ErrReferenceNotFound))
       ELSE Return([Result("getBranch", name, None, ErrNone)
                      EXCEPT !.name = name, !.hash = refs[name],
                             !.createdAt = AuthorWhen(refs[name]),
                             !.isMain = IsMainName(name),
                             !.path = GetDBPath(GetWorktreePath(GetRepoPath, name))])
    /\ UNCHANGED <<api, config, daemon, sim, now, path, pc, session, handle, everInit, initDone, disk, conns>>

(* ---------------------------------------------------------------------- *)
(* Merge                                                                   *)
(* ---------------------------------------------------------------------- *)

\* output lines of git, as words
LineUpToDate == <<"Already", "up", "to", "date.">>
LineFastForward == <<"Fast-forward">>
LineMergeMade == <<"Merge", "made", "by", "the", "'ort'", "strategy.">>
LineAutoFailed == <<"Automatic", "merge", "failed;", "fix", "conflicts",
                    "and", "then", "commit", "the", "result.">>
LineConflict(f) == <<"CONFLICT", "(content):", "Merge", "conflict", "in", f>>
LineAutoMerging(f) == <<"Auto-merging", f>>
LineNotMergeable(b) == <<"merge:", b, "-", "not", "something", "we", "can", "merge">>
LineCheckoutFailed(b) == <<"error:", "cannot", "check", "out", b>>
LineNotConcluded == <<"fatal:", "You", "have", "not", "concluded", "your",
                      "merge", "(MERGE_HEAD", "exists).">>

\* strings.Contains(line, "CONFLICT")
ContainsConflict(line) == \E i \in 1..Len(line) : line[i] = "CONFLICT"

RECURSIVE TrimSpace(_)
\* strings.TrimSpace: blank words at either end go
TrimSpace(line) ==
    IF line = <<>> THEN line
    ELSE IF Head(line) = " " THEN TrimSpace(Tail(line))
    ELSE IF line[Len(line)] = " " THEN TrimSpace(SubSeq(line, 1, Len(line) - 1))
    ELSE line

parseConflictsNoTrim(output) == SelectSeq(output, ContainsConflict)

RECURSIVE parseConflicts(_)
\* Repository.parseConflicts
parseConflicts(output) ==
    IF output = <<>> THEN <<>>
    ELSE IF ContainsConflict(Head(output))
         THEN <<TrimSpace(Head(output))>> \o parseConflicts(Tail(output))
         ELSE parseConflicts(Tail(output))

RECURSIVE ConflictOutput(_, _)
\* what 'git merge' prints for the conflicting files cf, in path order
ConflictOutput(i, cf) ==
    IF i > Len(FileSeq) THEN <<LineAutoFailed>>
    ELSE IF FileSeq[i] \in cf
         THEN <<LineAutoMerging(FileSeq[i]), LineConflict(FileSeq[i])>>
                 \o ConflictOutput(i + 1, cf)
         ELSE ConflictOutput(i + 1, cf)

\* 'git checkout <target>' in the primary working copy exits 0
CheckoutOk(target) ==
    /\ path = AbsRepoPath
    /\ refs[target] # 0
    /\ ~merging
    /\ (target = head \/ target \notin worktrees)

\* the kinds of outcome of 'git merge <source>' with target checked out
MergeKind(source, target) ==
    IF refs[source] = 0 THEN "invalid"
    ELSE IF IsAncestor(refs[source], refs[target]) THEN "uptodate"
    ELSE IF IsAncestor(refs[target], refs[source]) THEN "ff"
    ELSE LET b == commits[MergeBase(refs[source], refs[target])].tree IN
         IF ConflictFiles(b, commits[refs[target]].tree,
                          commits[refs[source]].tree) # {}
         THEN "conflict" ELSE "merge"

\* how the histories of two branches relate before a merge: "conflict"
\* (both changed one file, each to something else), "clean" (no such file)
Overlap(source, target) ==
    IF refs[source] = 0 \/ refs[target] = 0 THEN None
    ELSE LET b == commits[MergeBase(refs[source], refs[target])].tree IN
         IF \E f \in Files : /\ commits[refs[source]].tree[f] # b[f]
                              /\ commits[refs[target]].tree[f] # b[f]
                              /\ commits[refs[source]].tree[f] #
                                     commits[refs[target]].tree[f]
         THEN "conflict" ELSE "clean"

MergeResultOnSuccessOnly(exitErr, output) ==
    [success |-> ~exitErr,
     message |-> output,
     conflicts |-> IF ~exitErr /\ \E i \in 1..Len(output) : ContainsConflict(output[i])
                   THEN parseConflicts(output) ELSE <<>>]

MergeSuccessAlways(exitErr) == TRUE

\* MergeResult.Success: err == nil
MergeSuccess(exitErr) == ~exitErr

\* types.MergeResult as MergeBranches fills it from the merge step
MergeResultOf(exitErr, output) ==
    [success |-> MergeSuccess(exitErr),
     message |-> output,
     conflicts |-> IF exitErr /\ \E i \in 1..Len(output) : ContainsConflict(output[i])
                   THEN parseConflicts(output) ELSE <<>>]

MergeErrSurfaced(exitErr) == IF exitErr THEN ErrExit ELSE ErrNone

\* the error MergeBranches returns once the merge step has run: nil,
\* whatever the merge step's exit status
MergeErr(exitErr) == ErrNone

\* the merge step of MergeBranches(source, target), called by p:
\* 'git merge <source>' in the primary working copy, which has cur checked out
MergeInto(source, target, cur, p) ==
    LET kind == MergeKind(source, cur)
        ours == refs[cur]
        theirs == refs[source]
        Done(exitErr, output) ==
            LET m == MergeResultOf(exitErr, output) IN
            Return([Result("MergeBranches", source, target,
                           MergeErr(exitErr))
                      EXCEPT !.procs = 2, !.success = m.success,
                             !.overlap = Overlap(source, cur),
                             !.message = m.message,
                             !.conflicts = m.conflicts,
                             !.by = p])
    IN IF merging
       THEN /\ Done(TRUE, <<LineNotConcluded>>)
            /\ UNCHANGED <<commits, refs, merging>>
       ELSE
         CASE kind = "invalid" ->
              /\ Done(TRUE, <<LineNotMergeable(source)>>)
              /\ UNCHANGED <<commits, refs, merging>>
           [] kind = "uptodate" ->
              /\ Done(FALSE, <<LineUpToDate>>)
              /\ UNCHANGED <<commits, refs, merging>>
           [] kind = "ff" ->
              /\ refs' = [refs EXCEPT ![cur] = theirs]
              /\ Done(FALSE, <<LineFastForward>>)
              /\ UNCHANGED <<commits, merging>>
           [] kind = "merge" ->
              /\ LET b == commits[MergeBase(theirs, ours)].tree IN
                 commits' = Append(commits,
                     [when |-> now, parents |-> {ours, theirs},
                      tree |-> MergedTree(b, commits[ours].tree,
                                          commits[theirs].tree)])
              /\ refs' = [refs EXCEPT ![cur] = Len(commits) + 1]
              /\ Done(FALSE, <<LineMergeMade>>)
              /\ UNCHANGED merging
           [] kind = "conflict" ->
              /\ merging' = TRUE
              /\ LET b == commits[MergeBase(theirs, ours)].tree IN
                 Done(TRUE, ConflictOutput(1,
                        ConflictFiles(b, commits[ours].tree,
                                      commits[theirs].tree)))
              /\ UNCHANGED <<commits, refs>>

MergeBranchesRestoring(source, target) ==
    /\ api = "repo"
    /\ IF handle = "nil"
       THEN /\ Return(Result("MergeBranches", source, target, ErrNotInitialized))
            /\ UNCHANGED <<commits, refs, head, merging>>
       ELSE IF ~CheckoutOk(target)
       THEN /\ Return([Result("MergeBranches", source, target, ErrExit)
                         EXCEPT !.procs = 1,
                                !.message = <<LineCheckoutFailed(target)>>])
            /\ UNCHANGED <<commits, refs, head, merging>>
       ELSE /\ UNCHANGED head
            /\ MergeInto(source, target, target, 0)
    /\ UNCHANGED <<api, config, daemon, sim, now, path, pc, session, handle, everInit, initDone, gitDir, trunk,
                   worktrees, dbFiles, conns>>

\* Repository.MergeBranches(source, target)
RepoMergeBranches(source, target) ==
    /\ api = "repo"
    /\ IF handle = "nil"
       THEN /\ Return(Result("MergeBranches", source, target, ErrNotInitialized))
            /\ UNCHANGED <<commits, refs, head, merging>>
       ELSE IF ~CheckoutOk(target)
       THEN /\ Return([Result("MergeBranches", source, target, ErrExit)
                         EXCEPT !.procs = 1,
                                !.message = <<LineCheckoutFailed(target)>>])
            /\ UNCHANGED <<commits, refs, head, merging>>
       ELSE /\ head' = target
            /\ MergeInto(source, target, target, 0)
    /\ UNCHANGED <<api, config, daemon, sim, now, path, pc, session, handle, everInit, initDone, gitDir, trunk, worktrees,
                   dbFiles, conns>>

(* ---------------------------------------------------------------------- *)
(* Concurrent callers: the calls of the daemon's request handlers, in the   *)
(* steps between which another handler can run                             *)
(* ---------------------------------------------------------------------- *)

\* MergeBranches by caller p, up to and including 'git checkout <target>'
ConcMergeCheckout(p, source, target) ==
    /\ api = "repo"
    /\ pc[p].at = "idle"
    /\ IF handle = "nil"
       THEN /\ Return([Result("MergeBranches", source, target, ErrNotInitialized)
                         EXCEPT !.by = p])
            /\ UNCHANGED <<head, pc>>
       ELSE IF ~CheckoutOk(target)
       THEN /\ Return([Result("MergeBranches", source, target, ErrExit)
                         EXCEPT !.procs = 1, !.by = p,
                                !.message = <<LineCheckoutFailed(target)>>])
            /\ UNCHANGED <<head, pc>>
       ELSE /\ head' = target
            /\ pc' = [pc EXCEPT ![p] = [at |-> "merge", source |-> source,
                                        target |-> target, ok |-> TRUE]]
            /\ Return([Result("Checkout", source, target, ErrNone)
                         EXCEPT !.procs = 1, !.by = p])
    /\ UNCHANGED <<api, config, daemon, sim, now, path, session, handle, everInit, initDone, gitDir, trunk, commits, refs,
                   merging, worktrees, dbFiles, conns>>

\* MergeBranches by caller p, from 'git merge <source>' to its return
ConcMergeMerge(p) ==
    /\ api = "repo"
    /\ pc[p].at = "merge"
    /\ MergeInto(pc[p].source, pc[p].target, head, p)
    /\ pc' = [pc EXCEPT ![p] = Idle]
    /\ UNCHANGED <<api, config, daemon, sim, now, path, session, handle, everInit, initDone, gitDir, trunk, head,
                   worktrees, dbFiles, conns>>

\* CreateWorktree by caller p, up to and including os.Stat(worktreePath)
ConcStat(p, branch) ==
    /\ api = "repo"
    /\ pc[p].at = "idle"
    /\ IF handle = "nil"
       THEN /\ Return([Result("CreateWorktree", branch, None, ErrNotInitialized)
                         EXCEPT !.by = p])
            /\ UNCHANGED pc
       ELSE IF DirExists(WorktreePath(branch))
       THEN /\ Return([Result("CreateWorktree", branch, None, ErrNone)
                         EXCEPT !.path = WorktreePath(branch), !.by = p])
            /\ UNCHANGED pc
       ELSE /\ pc' = [pc EXCEPT ![p] = [at |-> "add", source |-> branch,
                                        target |-> None,
                                        ok |-> WorktreeAddOk(branch)]]
            /\ Return([Result("Stat", branch, None, ErrNone) EXCEPT !.by = p])
    /\ UNCHANGED <<api, config, daemon, sim, now, path, session, handle, everInit, initDone, disk, conns>>

\* CreateWorktree by caller p, from 'git worktree add' to its return
ConcWorktreeAdd(p) ==
    /\ api = "repo"
    /\ pc[p].at = "add"
    /\ LET branch == pc[p].source IN
       IF WorktreeAddOk(branch)
       THEN /\ worktrees' = worktrees \cup {branch}
            /\ Return([Result("CreateWorktree", branch, None, ErrNone)
                         EXCEPT !.path = WorktreePath(branch), !.adds = 1,
                                !.procs = 1, !.by = p])
       ELSE /\ Return([Result("CreateWorktree", branch, None, ErrExit)
                         EXCEPT !.adds = 1, !.procs = 1, !.by = p])
            /\ UNCHANGED worktrees
    /\ pc' = [pc EXCEPT ![p] = Idle]
    /\ UNCHANGED <<api, config, daemon, sim, now, path, session, handle, everInit, initDone, gitDir, trunk, commits, refs,
                   head, merging, dbFiles, conns>>

\* the commits made by users: one parent
UserCommits == {c \in CommitIds : Cardinality(commits[c].parents) = 1}

\* a commit made in the working copy of branch b by its user (the core
\* itself never commits after Init): file f gets content v
ExternalCommit(b, f, v) ==
    /\ api = "repo"
    /\ gitDir
    /\ refs[b] # 0
    /\ Cardinality(UserCommits) < MaxCommits
    /\ b \in worktrees \/ (b = head /\ ~merging)
    /\ commits[refs[b]].tree[f] # v
    /\ commits' = Append(commits,
                    [when |-> now, parents |-> {refs[b]},
                     tree |-> [commits[refs[b]].tree EXCEPT ![f] = v]])
    /\ refs' = [refs EXCEPT ![b] = Len(commits) + 1]
    /\ Return(Result("ExternalCommit", b, f, ErrNone))
    /\ UNCHANGED <<api, config, daemon, sim, now, path, pc, session, handle, everInit, initDone, gitDir, trunk, head, merging,
                   worktrees, dbFiles, conns>>

(* ---------------------------------------------------------------------- *)
(* git.Manager and database.Manager                                        *)
(* ---------------------------------------------------------------------- *)

\* the database file of the trunk, in the repository root
MainDB == GetBranchPath("main")

\* Manager.InitDatabase(dbName).  dflt: the branch 'git init' names in HEAD.
MgrInitDatabase(dflt) ==
    /\ api = "mgr"
    /\ gitDir' = TRUE
    /\ trunk' = IF gitDir THEN trunk ELSE dflt
    /\ head' = IF gitDir THEN head ELSE dflt
    \* os.Create truncates main.db
    /\ dbFiles' = [dbFiles EXCEPT ![MainDB] =
                        [exists |-> TRUE, schema |-> FALSE, rows |-> {}]]
    /\ IF HeadHash = 0
       THEN \* 'git commit' records main.db on the unborn branch
            /\ Len(commits) < MaxRootCommits
            /\ commits' = Append(commits, [when |-> now, parents |-> {}, tree |-> InitialTree])
            /\ refs' = [refs EXCEPT ![head'] = Len(commits) + 1]
            /\ Return([Result("InitDatabase", None, None, ErrNone)
                         EXCEPT !.procs = 5])
       ELSE \* main.db is as committed: 'git commit' has nothing to commit
            /\ Return([Result("InitDatabase", None, None, ErrNothingToCommit)
                         EXCEPT !.procs = 5])
            /\ UNCHANGED <<commits, refs>>
    /\ UNCHANGED <<api, config, daemon, sim, now, path, pc, session, handle, everInit, initDone, merging, worktrees, conns>>

\* main.db differs from the committed (empty) file
MainDBDirty == dbFiles[MainDB].rows # {}

\* Manager.CreateBranch(dbName, branchName)
MgrCreateBranch(b) ==
    /\ api = "mgr"
    /\ IF ~gitDir
       THEN /\ Return(Result("CreateBranch", b, None, ErrNoRepo))
            /\ UNCHANGED <<refs, head, worktrees>>
       ELSE IF HeadHash = 0
       THEN /\ Return(Result("CreateBranch", b, None, ErrReferenceNotFound))
            /\ UNCHANGED <<refs, head, worktrees>>
       ELSE /\ refs' = [refs EXCEPT ![b] = HeadHash]
            /\ worktrees' = worktrees \cup {b}
            \* worktree.Checkout: HEAD is moved, then the reset refuses a
            \* working copy with unstaged changes
            /\ head' = b
            /\ Return([Result("CreateBranch", b, None,
                              IF MainDBDirty THEN ErrDirty ELSE ErrNone)
                         EXCEPT !.fresh = refs[b] = 0,
                                !.trunkRev = refs[trunk]])
    /\ UNCHANGED <<api, config, daemon, sim, now, path, pc, session, handle, everInit, initDone, gitDir, trunk, commits, merging,
                   dbFiles, conns>>

RemoveEmptyOnly(b) ==
    IF dbFiles[Join(Join(AbsRepoPath, <<"worktrees", b>>), <<"main.db">>)].exists
    THEN worktrees ELSE worktrees \ {b}

\* the branch directories left by os.RemoveAll(worktrees/<b>)
RemoveAll(b) == worktrees \ {b}

DeleteBranchGuardsMaster(b) ==
    /\ api = "mgr"
    /\ IF b = "master"
       THEN /\ Return([Result("DeleteBranch", b, None, ErrProtected)
                         EXCEPT !.fresh = refs[b] = 0])
            /\ UNCHANGED <<refs, worktrees, dbFiles, conns>>
       ELSE IF ~gitDir
       THEN /\ Return(Result("DeleteBranch", b, None, ErrNoRepo))
            /\ UNCHANGED <<refs, worktrees, dbFiles, conns>>
       ELSE /\ refs' = [refs EXCEPT ![b] = 0]
            /\ worktrees' = worktrees \ {b}
            /\ dbFiles' = [p \in DBPaths |->
                             IF p = Join(BranchDir(b), <<"main.db">>)
                             THEN NoFile ELSE dbFiles[p]]
            /\ conns' = [conns EXCEPT ![b] =
                           IF conns[b].state = "live" /\ b # "main"
                           THEN [conns[b] EXCEPT !.state = "stale",
                                                 !.rows = dbFiles[GetBranchPath(b)].rows]
                           ELSE conns[b]]
            /\ Return([Result("DeleteBranch", b, None, ErrNone)
                         EXCEPT !.fresh = refs[b] = 0])
    /\ UNCHANGED <<api, config, daemon, sim, now, path, pc, session, handle, everInit, initDone, gitDir, trunk, commits, head,
                   merging>>

\* Manager.DeleteBranch(dbName, branchName)
MgrDeleteBranch(b) ==
    /\ api = "mgr"
    /\ IF b = "main"
       THEN /\ Return([Result("DeleteBranch", b, None, ErrProtected)
                         EXCEPT !.fresh = refs[b] = 0])
            /\ UNCHANGED <<refs, worktrees, dbFiles, conns>>
       ELSE IF ~gitDir
       THEN /\ Return(Result("DeleteBranch", b, None, ErrNoRepo))
            /\ UNCHANGED <<refs, worktrees, dbFiles, conns>>
       ELSE /\ refs' = [refs EXCEPT ![b] = 0]
            /\ worktrees' = RemoveAll(b)
            \* os.RemoveAll(worktrees/<b>) takes the database file with it;
            \* a connection open on it keeps the unlinked file
            /\ dbFiles' = [p \in DBPaths |->
                             IF p = Join(BranchDir(b), <<"main.db">>)
                             THEN NoFile ELSE dbFiles[p]]
            /\ conns' = [conns EXCEPT ![b] =
                           IF conns[b].state = "live"
                           THEN [conns[b] EXCEPT !.state = "stale",
                                                 !.rows = dbFiles[GetBranchPath(b)].rows]
                           ELSE conns[b]]
            /\ Return([Result("DeleteBranch", b, None, ErrNone)
                         EXCEPT !.fresh = refs[b] = 0])
    /\ UNCHANGED <<api, config, daemon, sim, now, path, pc, session, handle, everInit, initDone, gitDir, trunk, commits, head,
                   merging>>

\* Manager.ListBranches(dbName)
MgrBranchList == IF gitDir THEN {n \in Names : refs[n] # 0} ELSE {}

MgrListBranches ==
    /\ api = "mgr"
    /\ IF ~gitDir
       THEN Return(Result("ListBranches", None, None, ErrNoRepo))
       ELSE Return([Result("ListBranches", None, None, ErrNone)
                      EXCEPT !.branches = MgrBranchList])
    /\ UNCHANGED <<api, config, daemon, sim, now, path, pc, session, handle, everInit, initDone, disk, conns>>

\* Manager.BranchExists(dbName, branchName)
BranchExists(b) == b \in MgrBranchList

\* the directory that holds the database file of b exists
DBDirExists(b) == IF b = "main" THEN gitDir ELSE DirExists(BranchDir(b))

\* m.conns[connKey] holds a handle
Cached(b) == conns[b].state # "none"

\* sql.Open and m.conns[connKey] = db: a new handle, not connected yet,
\* takes the place of whatever the map held under the key
OpenConn(c) == [state |-> "cached", rows |-> {}, opens |-> c.opens + 1]

\* executeSelect / executeModify on the handle c kept for branch b: the
\* handle and the database file afterwards, and what the caller gets
QueryOutcome(b, kind, c) ==
    LET old == dbFiles[GetBranchPath(b)] IN
    IF c.state = "stale"
    THEN \* the connection still works on the unlinked file
         [conn |-> [c EXCEPT !.rows = IF kind = "write" THEN c.rows \cup {b}
                                      ELSE c.rows],
          file |-> old, err |-> ErrNone,
          rows |-> IF kind = "read" THEN c.rows ELSE {}]
    ELSE IF c.state # "live" /\ ~DBDirExists(b)
    THEN \* sqlite cannot create the file: the handle stays cached
         [conn |-> [c EXCEPT !.state = "cached", !.rows = {}],
          file |-> old, err |-> ErrQuery, rows |-> {}]
    ELSE [conn |-> [c EXCEPT !.state = "live", !.rows = {}],
          file |-> [old EXCEPT !.exists = TRUE,
                               !.rows = IF kind = "write" THEN old.rows \cup {b}
                                        ELSE old.rows],
          err |-> ErrNone,
          rows |-> IF kind = "read" THEN old.rows ELSE {}]

\* database.Manager.ExecuteQuery(ctx, dbName, branch, query)
ExecuteQuery(b, kind) ==
    /\ api = "mgr"
    /\ IF ~BranchExists(b)
       THEN /\ Return(Result("ExecuteQuery", b, kind, ErrNoBranch))
            /\ UNCHANGED <<dbFiles, conns>>
       ELSE LET c == IF Cached(b) THEN conns[b] ELSE OpenConn(conns[b])
                o == QueryOutcome(b, kind, c)
            IN  /\ conns' = [conns EXCEPT ![b] = o.conn]
                /\ dbFiles' = [dbFiles EXCEPT ![GetBranchPath(b)] = o.file]
                /\ Return([Result("ExecuteQuery", b, kind, o.err)
                             EXCEPT !.path = GetBranchPath(b), !.rows = o.rows])
    /\ UNCHANGED <<api, config, daemon, sim, now, path, pc, session, handle, everInit, initDone, gitDir, trunk, commits, refs,
                   head, merging, worktrees>>

\* ExecuteQuery by caller p, up to and including the BranchExists check
ConcQueryCheck(p, b, kind) ==
    /\ api = "mgr"
    /\ pc[p].at = "idle"
    /\ IF ~BranchExists(b)
       THEN /\ Return([Result("ExecuteQuery", b, kind, ErrNoBranch)
                         EXCEPT !.by = p])
            /\ UNCHANGED pc
       ELSE /\ pc' = [pc EXCEPT ![p] = [at |-> "lookup", source |-> b,
                                        target |-> kind, ok |-> FALSE]]
            /\ UNCHANGED last
    /\ UNCHANGED <<api, config, daemon, sim, now, path, session, handle, everInit, initDone, disk, conns>>

\* ExecuteQuery by caller p: db, exists := m.conns[connKey]
ConcQueryLookup(p) ==
    /\ api = "mgr"
    /\ pc[p].at = "lookup"
    /\ pc' = [pc EXCEPT ![p].at = IF Cached(pc[p].source) THEN "run" ELSE "open",
                        ![p].ok = Cached(pc[p].source)]
    /\ UNCHANGED <<api, config, daemon, sim, now, path, session, handle, everInit, initDone, disk, conns, last>>

\* caller p is about to write m.conns while caller q is about to read or
\* write it: nothing orders the two accesses
MapRace(p, q) ==
    /\ p # q
    /\ pc[p].at = "open"
    /\ pc[q].at \in {"lookup", "open"}

\* the server process after the Go runtime has aborted it
Crashed == [at |-> "crashed", source |-> None, target |-> None, ok |-> FALSE]

\* ExecuteQuery by caller p: sql.Open and m.conns[connKey] = db.  A write
\* that races with another access of the map either goes through or is
\* caught by the runtime ("fatal error: concurrent map writes"), which ends
\* the process.
ConcQueryOpen(p) ==
    /\ api = "mgr"
    /\ pc[p].at = "open"
    /\ \/ /\ conns' = [conns EXCEPT ![pc[p].source] = OpenConn(@)]
          /\ pc' = [pc EXCEPT ![p].at = "run"]
       \/ /\ \E q \in Procs : MapRace(p, q)
          /\ pc' = [q \in Procs |-> Crashed]
          /\ UNCHANGED conns
    /\ UNCHANGED <<api, config, daemon, sim, now, path, session, handle, everInit, initDone, disk, last>>

\* ExecuteQuery by caller p: the statement runs and the call returns
ConcQueryRun(p) ==
    /\ api = "mgr"
    /\ pc[p].at = "run"
    /\ LET b == pc[p].source
           kind == pc[p].target
           o == QueryOutcome(b, kind, conns[b])
       IN  /\ conns' = [conns EXCEPT ![b] = o.conn]
           /\ dbFiles' = [dbFiles EXCEPT ![GetBranchPath(b)] = o.file]
           /\ Return([Result("ExecuteQuery", b, kind, o.err)
                        EXCEPT !.path = GetBranchPath(b), !.rows = o.rows,
                               !.by = p])
    /\ pc' = [pc EXCEPT ![p] = Idle]
    /\ UNCHANGED <<api, config, daemon, sim, now, path, session, handle, everInit, initDone, gitDir, trunk, commits, refs,
                   head, merging, worktrees>>

(* ---------------------------------------------------------------------- *)
(* The daemon: Start, its three goroutines, Stop                           *)
(* ---------------------------------------------------------------------- *)

\* the statements of the first-query scenario: INSERT INTO demo, a SELECT
DemoKinds == {"demo", "read"}

DaemonStartIgnoringInit(fault, dflt) ==
    /\ daemon.start = "no"
    /\ InitCall(fault, dflt)
    /\ daemon' = [daemon EXCEPT !.start = "ok", !.mon = "wait",
                                !.http = "starting", !.health = "wait"]

\* Daemon.Start: Repository.Init, then the three goroutines are launched;
\* when Init fails its error is returned and nothing is launched
DaemonStart(fault, dflt) ==
    /\ daemon.start = "no"
    /\ InitCall(fault, dflt)
    /\ daemon' = IF last'.err = ErrNone
                 THEN [daemon EXCEPT !.start = "ok", !.mon = "wait",
                                     !.http = "starting", !.health = "wait"]
                 ELSE [daemon EXCEPT !.start = "failed"]

\* only the daemon changes
DaemonOnly == UNCHANGED <<api, config, sim, now, path, handle, everInit, initDone,
                          disk, conns, pc, session, last>>

\* runMonitoringLoop, case <-ticker.C: performMaintenance lists the branches
MonitorTick ==
    /\ daemon.mon = "wait"
    /\ RepoListBranches

MonitorContinues ==
    /\ daemon.mon = "wait"
    /\ daemon.ctx = "cancelled"
    /\ UNCHANGED vars

\* runMonitoringLoop, case <-ctx.Done(): the loop returns
MonitorStop ==
    /\ daemon.mon = "wait"
    /\ daemon.ctx = "cancelled"
    /\ daemon' = [daemon EXCEPT !.mon = "done"]
    /\ DaemonOnly

\* runHealthChecks, case <-ticker.C: performHealthCheck reads the current
\* hash (the repository directory exists once Init has succeeded)
HealthTick ==
    /\ daemon.health = "wait"
    /\ RepoGetCurrentHash

\* runHealthChecks, case <-ctx.Done(): the loop returns
HealthStop ==
    /\ daemon.health = "wait"
    /\ daemon.ctx = "cancelled"
    /\ daemon' = [daemon EXCEPT !.health = "done"]
    /\ DaemonOnly

\* HTTPServer.Start reaches ListenAndServe: the server serves, or the
\* address cannot be bound and Start returns the error
HTTPListen ==
    /\ daemon.http = "starting"
    /\ \E bound \in BOOLEAN :
          daemon' = [daemon EXCEPT !.http = IF bound THEN "serving" ELSE "done"]
    /\ DaemonOnly

\* HTTPServer.Start: the context is done, Shutdown is called, ListenAndServe
\* returns ErrServerClosed and Start returns
HTTPShutdown ==
    /\ daemon.http \in {"starting", "serving"}
    /\ daemon.ctx = "cancelled"
    /\ daemon' = [daemon EXCEPT !.http = "done"]
    /\ DaemonOnly

\* a request served by HTTPServer: the handlers of /api/branches and
\* /api/status (ListBranches), /api/branches/<name>, /api/query and
\* /api/merge
HTTPRequest ==
    /\ daemon.http = "serving"
    /\ \/ RepoListBranches
       \/ \E name \in Names : RepoCreateBranch(name)
       \/ \E name \in Names : HTTPGetBranch(name)
       \/ \E branch \in Names, kind \in DemoKinds : RepoQuery(branch, kind)
       \/ \E source \in Names, target \in Names :
             RepoMergeBranches(source, target)

\* SIGINT / SIGTERM: the context main passed to Start is cancelled
Signal ==
    /\ daemon.start = "ok"
    /\ daemon.ctx = "live"
    /\ daemon' = [daemon EXCEPT !.ctx = "cancelled"]
    /\ DaemonOnly

\* Daemon.Stop up to its select: d.cancel() and the goroutine that waits
\* for the WaitGroup
DaemonStop ==
    /\ daemon.start # "no"
    /\ daemon.stop = "idle"
    /\ daemon' = [daemon EXCEPT !.ctx = "cancelled", !.stop = "waiting"]
    /\ DaemonOnly

\* d.wg.Wait() has returned: no goroutine of the daemon is running
AllDone ==
    /\ daemon.mon \in {"off", "done"}
    /\ daemon.health \in {"off", "done"}
    /\ daemon.http \in {"off", "done"}

\* Daemon.Stop, case <-done
StopDone ==
    /\ daemon.stop = "waiting"
    /\ AllDone
    /\ daemon' = [daemon EXCEPT !.stop = "returned"]
    /\ DaemonOnly

\* Daemon.Stop, case <-time.After(10 * time.Second)
StopTimeout ==
    /\ daemon.stop = "waiting"
    /\ daemon' = [daemon EXCEPT !.stop = "returned"]
    /\ DaemonOnly

(* ---------------------------------------------------------------------- *)
(* The simulator: MockSimulator and its lock                               *)
(* ---------------------------------------------------------------------- *)

\* longest operation list handed to SimulateOperations
MaxSimOps == 1

\* calls of SimulateOperations and GetMetrics in one run
MaxSimCalls == 3

\* operations as simulateOperation reads them after parseOperation
SimOp(type, a, b) == [type |-> type, a |-> a, b |-> b]

SimOps ==
    {SimOp("create_repo", None, None),
     SimOp("create_branch", "feature", None),
     SimOp("query", "feature", "SELECT 1"),
     SimOp("merge", "feature", "main"),
     SimOp("list_branches", None, None),
     SimOp("simulate_error", "network", None),
     SimOp("simulate_recovery", None, None)}

OpLists == UNION {[1..n -> SimOps] : n \in 1..MaxSimOps}

\* rand.Intn(100) in simulateQuery: the size stays or grows
Growth == {0, 1}

\* m[key] = value on a Go map
Put(m, key, value) ==
    [k \in DOMAIN m \cup {key} |-> IF k = key THEN value ELSE m[k]]

\* updateMetrics(key, increment) on the map m
updateMetrics(m, key, increment) ==
    IF key \in DOMAIN m THEN Put(m, key, m[key] + increment)
    ELSE Put(m, key, increment)

\* the operation caller p is at
SimCur(p) == sim.ops[p][sim.i[p]]

\* the lock the section caller p is in takes: "W" (mu.Lock), "R" (mu.RLock)
\* or "none"
LockMode(p) ==
    CASE sim.sec[p] \in {"head", "completed"} -> "W"
      [] sim.sec[p] = "failed" -> "none"
      [] sim.sec[p] = "get" -> "R"
      [] OTHER ->
           IF SimCur(p).type \in {"create_repo", "create_branch", "query", "merge"}
           THEN "W"
           ELSE IF SimCur(p).type = "list_branches" THEN "R" ELSE "none"

\* the maps after the section caller p is in, and whether it failed.
\* grow: the value rand.Intn gave simulateQuery
SimAfter(p, grow) ==
    LET same == [metrics |-> sim.metrics, branches |-> sim.branches,
                 dbs |-> sim.dbs, err |-> FALSE]
        failed == [same EXCEPT !.err = TRUE]
        op == SimCur(p)
    IN  CASE sim.sec[p] = "head" ->
               [same EXCEPT !.metrics =
                   Put(Put(sim.metrics, "operations_total", Len(sim.ops[p])),
                       "operations_completed", 0)]
          [] sim.sec[p] = "completed" ->
               [same EXCEPT !.metrics =
                   Put(sim.metrics, "operations_completed", sim.i[p])]
          [] sim.sec[p] = "failed" ->
               [same EXCEPT !.metrics =
                   updateMetrics(sim.metrics, "operations_failed", 1)]
          [] sim.sec[p] = "get" -> same
          [] OTHER ->
               CASE op.type = "create_repo" ->
                      [same EXCEPT
                         !.branches = sim.branches \cup {"main"},
                         !.dbs = Put(sim.dbs, "main", 1024),
                         !.metrics = updateMetrics(sim.metrics, "repo_created", 1)]
                 [] op.type = "create_branch" ->
                      IF op.a \in sim.branches THEN failed
                      ELSE [same EXCEPT
                              !.branches = sim.branches \cup {op.a},
                              !.dbs = Put(sim.dbs, op.a, 512),
                              !.metrics = updateMetrics(sim.metrics,
                                                        "branches_created", 1)]
                 [] op.type = "query" ->
                      IF op.a \notin sim.branches THEN failed
                      ELSE [same EXCEPT
                              !.metrics = updateMetrics(sim.metrics,
                                                        "queries_executed", 1),
                              !.dbs = IF op.a \in DOMAIN sim.dbs
                                      THEN Put(sim.dbs, op.a, sim.dbs[op.a] + grow)
                                      ELSE sim.dbs]
                 [] op.type = "merge" ->
                      IF op.a \notin sim.branches \/ op.b \notin sim.branches
                      THEN failed
                      ELSE [same EXCEPT
                              !.metrics = updateMetrics(sim.metrics,
                                                        "merges_completed", 1)]
                 [] op.type = "list_branches" ->
                      [same EXCEPT
                         !.metrics = updateMetrics(sim.metrics,
                                                   "list_operations", 1)]
                 [] op.type = "simulate_error" ->
                      [same EXCEPT
                         !.metrics = updateMetrics(sim.metrics,
                                                   "errors_simulated", 1)]
                 [] OTHER ->
                      [same EXCEPT
                         !.metrics = updateMetrics(sim.metrics,
                                                   "recoveries_simulated", 1)]

\* the maps the section caller p is in writes
SimWrites(p) ==
    LET op == SimCur(p) IN
    CASE sim.sec[p] \in {"head", "completed", "failed"} -> {"metrics"}
      [] sim.sec[p] = "get" -> {}
      [] OTHER ->
           CASE op.type = "create_repo" -> {"branches", "dbs", "metrics"}
             [] op.type = "create_branch" ->
                  IF op.a \in sim.branches THEN {}
                  ELSE {"branches", "dbs", "metrics"}
             [] op.type = "query" ->
                  IF op.a \notin sim.branches THEN {} ELSE {"metrics", "dbs"}
             [] op.type = "merge" ->
                  IF op.a \notin sim.branches \/ op.b \notin sim.branches
                  THEN {} ELSE {"metrics"}
             [] OTHER -> {"metrics"}

\* the maps the section caller p is in reads
SimReads(p) ==
    LET op == SimCur(p) IN
    CASE sim.sec[p] \in {"head", "completed"} -> {}
      [] sim.sec[p] = "failed" -> {"metrics"}
      [] sim.sec[p] = "get" -> {"metrics", "branches", "dbs"}
      [] OTHER ->
           CASE op.type = "create_repo" -> {"metrics"}
             [] op.type = "create_branch" -> {"branches"} \cup SimWrites(p)
             [] op.type = "query" ->
                  IF op.a \in sim.branches THEN {"branches", "dbs", "metrics"}
                  ELSE {"branches"}
             [] op.type = "merge" -> {"branches"} \cup SimWrites(p)
             [] op.type = "list_branches" -> {"branches", "metrics"}
             [] OTHER -> {"metrics"}

\* callers p and q are inside accesses of one map, and p writes it
SimRace(p, q) ==
    /\ p # q
    /\ sim.at[p] = "access"
    /\ sim.at[q] = "access"
    /\ SimWrites(p) \cap (SimWrites(q) \cup SimReads(q)) # {}

\* everything but the simulator stays
SimOnly == UNCHANGED <<api, config, daemon, now, path, handle, everInit,
                       initDone, disk, conns, pc, session, last>>

\* SimulateOperations(ops) is called by p
SimulateOperations(p, ops) ==
    /\ sim.at[p] = "idle"
    /\ sim.calls < MaxSimCalls
    /\ sim' = [sim EXCEPT !.calls = @ + 1, !.at[p] = "acquire",
                          !.sec[p] = "head", !.ops[p] = ops, !.i[p] = 0,
                          !.err[p] = FALSE]
    /\ SimOnly

\* GetMetrics() is called by p
GetMetrics(p) ==
    /\ sim.at[p] = "idle"
    /\ sim.calls < MaxSimCalls
    /\ sim' = [sim EXCEPT !.calls = @ + 1, !.at[p] = "acquire",
                          !.sec[p] = "get", !.ops[p] = <<>>, !.i[p] = 0,
                          !.err[p] = FALSE]
    /\ SimOnly

\* s.mu.Lock(), s.mu.RLock(), or no lock at all, as the section has it
SimLock(p) ==
    /\ sim.at[p] = "acquire"
    /\ CASE LockMode(p) = "W" ->
              /\ sim.writer = 0
              /\ sim.readers = {}
              /\ sim' = [sim EXCEPT !.writer = p, !.at[p] = "access"]
         [] LockMode(p) = "R" ->
              /\ sim.writer = 0
              /\ sim' = [sim EXCEPT !.readers = @ \cup {p}, !.at[p] = "access"]
         [] OTHER ->
              sim' = [sim EXCEPT !.at[p] = "access"]
    /\ SimOnly

\* the map accesses of the section.  A write that races with another
\* access either goes through or is caught by the runtime ("fatal error:
\* concurrent map writes"), which ends the process.
SimAccess(p) ==
    /\ sim.at[p] = "access"
    /\ \/ \E grow \in Growth :
             LET after == SimAfter(p, grow) IN
             sim' = [sim EXCEPT !.metrics = after.metrics,
                                !.branches = after.branches,
                                !.dbs = after.dbs,
                                !.err[p] = after.err,
                                !.at[p] = "release"]
       \/ /\ \E q \in Procs : SimRace(p, q) \/ SimRace(q, p)
          /\ sim' = [sim EXCEPT !.at = [q \in Procs |-> "crashed"]]
    /\ SimOnly

\* the section's Unlock or RUnlock, and where the caller goes next: from the
\* head into the loop, from an operation to the write of
\* operations_completed or of operations_failed, from there to the next
\* operation or out
SimUnlock(p) ==
    /\ sim.at[p] = "release"
    /\ LET freed == [sim EXCEPT !.writer = IF @ = p THEN 0 ELSE @,
                                !.readers = @ \ {p}]
           out == [freed EXCEPT !.at[p] = "idle", !.sec[p] = None]
       IN  sim' =
             CASE sim.sec[p] = "head" ->
                    [freed EXCEPT !.at[p] = "acquire", !.sec[p] = "op", !.i[p] = 1]
               [] sim.sec[p] = "op" ->
                    [freed EXCEPT !.at[p] = "acquire",
                                  !.sec[p] = IF sim.err[p] THEN "failed"
                                             ELSE "completed"]
               [] sim.sec[p] = "completed" /\ sim.i[p] < Len(sim.ops[p]) ->
                    [freed EXCEPT !.at[p] = "acquire", !.sec[p] = "op",
                                  !.i[p] = @ + 1]
               [] OTHER -> out
    /\ SimOnly

(* ---------------------------------------------------------------------- *)
(* The connection-string boundary: the connect command and the /query      *)
(* handler of the server.  A string is a sequence of tokens: "@" or a      *)
(* piece of text without "@".                                              *)
(* ---------------------------------------------------------------------- *)

\* longest connection string tried, in tokens
MaxConnLen == 3

ConnTokens == {"@", "db", "feature"}

RECURSIVE ConnStrings(_)
\* the strings of at most n tokens
ConnStrings(n) ==
    IF n = 0 THEN {<<>>}
    ELSE ConnStrings(n - 1) \cup
         {Append(t, c) : t \in ConnStrings(n - 1), c \in ConnTokens}

RECURSIVE Split(_)
\* strings.Split(str, "@"): the pieces between the separators, empty ones
\* included
Split(str) ==
    IF \A i \in 1..Len(str) : str[i] # "@" THEN <<str>>
    ELSE LET i == CHOOSE k \in 1..Len(str) :
                     str[k] = "@" /\ \A j \in 1..(k - 1) : str[j] # "@"
         IN  <<SubSeq(str, 1, i - 1)>> \o Split(SubSeq(str, i + 1, Len(str)))

ParseConnNoDefault(connStr) ==
    LET parts == Split(connStr) IN
    [db |-> parts[1], branch |-> IF Len(parts) > 1 THEN parts[2] ELSE <<>>]

\* NewConnectCmd: dbName and branch out of the connection string
ParseConn(connStr) ==
    LET parts == Split(connStr) IN
    [db |-> parts[1],
     branch |-> IF Len(parts) > 1 THEN parts[2] ELSE <<"main">>]

\* Server.handleQuery: the branch a request with this branch parameter is
\* executed against
RequestBranch(param) == IF param = <<>> THEN <<"main">> ELSE param

\* the text of a token sequence: one token is that token, several run
\* together into a text that names no branch of the model
Text(str) == IF Len(str) = 1 THEN str[1] ELSE IF str = <<>> THEN "" ELSE "other"

\* the connect command starts a session on connStr
Connect(connStr) ==
    /\ api = "mgr"
    /\ LET c == ParseConn(connStr) IN
       /\ session' = [conn |-> connStr, db |-> c.db, branch |-> c.branch]
       /\ Return([Result("Connect", Text(c.db), Text(c.branch), ErrNone)
                    EXCEPT !.path = connStr])
    /\ UNCHANGED <<api, config, daemon, sim, now, path, pc, handle, everInit, initDone, disk, conns>>

\* a statement typed in the session: executeQuery posts it with the
\* session's branch, Server.handleQuery runs it
SessionQuery(kind) ==
    /\ session # NoSession
    /\ ExecuteQuery(Text(RequestBranch(session.branch)), kind)

(* ---------------------------------------------------------------------- *)
(* Specification                                                           *)
(* ---------------------------------------------------------------------- *)

Faults == {"none", "init", "commit"}
QueryKinds == {"read", "write"}

\* Spec: the whole Repository API on a repository whose history is the
\* initial commit (nobody commits).  The query path is left to SpecDB: it
\* provisions worktrees as CreateWorktree does and otherwise touches
\* database files only, which no action here reads.
InitRepo == Init /\ api = "repo"

Next ==
    \/ NewRepository
    \/ \E fault \in Faults, dflt \in TrunkNames : RepoInit(fault, dflt)
    \/ \E name \in Names : RepoCreateBranch(name)
    \/ \E name \in Names : RepoGetBranch(name)
    \/ RepoListBranches
    \/ RepoGetCurrentHash
    \/ \E branch \in Names : RepoCreateWorktree(branch)
    \/ \E source \in Names, target \in Names : RepoMergeBranches(source, target)

Spec == InitRepo /\ [][Next]_vars

\* SpecInit: the Repository API, Init being called with either path
NextInit ==
    \/ Next
    \/ RepoInitElsewhere

SpecInit == InitRepo /\ [][NextInit]_vars

\* SpecMerge: branches whose histories advance and get merged.  The
\* callers name two branches; the trunk of the repository may be a third.
MergeNames == {"master", "feature"}

NextMerge ==
    \/ \E dflt \in TrunkNames : RepoInit("none", dflt)
    \/ \E name \in MergeNames : RepoCreateBranch(name)
    \/ \E name \in MergeNames : RepoGetBranch(name)
    \/ RepoGetCurrentHash
    \/ \E branch \in MergeNames : RepoCreateWorktree(branch)
    \/ \E source \in MergeNames, target \in MergeNames :
          RepoMergeBranches(source, target)
    \/ \E b \in MergeNames, f \in Files, v \in Contents : ExternalCommit(b, f, v)

SpecMerge == InitRepo /\ [][NextMerge]_vars

\* SpecDB: branches and their database files, under either manager.
\* Commits and merges are left to SpecMerge: they move references only.
NextDB ==
    \/ \E dflt \in TrunkNames : RepoInit("none", dflt)
    \/ \E name \in Names : RepoCreateBranch(name)
    \/ \E branch \in Names : RepoCreateWorktree(branch)
    \/ \E branch \in Names, kind \in QueryKinds : RepoQuery(branch, kind)
    \/ \E dflt \in TrunkNames : MgrInitDatabase(dflt)
    \/ \E b \in Names : MgrCreateBranch(b)
    \/ \E b \in Names : MgrDeleteBranch(b)
    \/ MgrListBranches
    \/ \E b \in Names, kind \in QueryKinds : ExecuteQuery(b, kind)

SpecDB == Init /\ [][NextDB]_vars

\* SpecConc: the daemon's handlers calling one Repository concurrently;
\* MergeBranches and CreateWorktree run in the steps another call can
\* come between.
NextConc ==
    \/ \E dflt \in TrunkNames : RepoInit("none", dflt)
    \/ \E name \in Names : RepoCreateBranch(name)
    \/ \E p \in Procs, source \in Names, target \in Names :
          ConcMergeCheckout(p, source, target)
    \/ \E p \in Procs : ConcMergeMerge(p)
    \/ \E p \in Procs, branch \in Names : ConcStat(p, branch)
    \/ \E p \in Procs : ConcWorktreeAdd(p)

SpecConc == InitRepo /\ [][NextConc]_vars

\* SpecConcMerge: concurrent merges of a branch that advances, by one
\* commit of its user, into the branches that do not
NextConcMerge ==
    \/ RepoInit("none", "main")
    \/ \E name \in MergeNames : RepoCreateBranch(name)
    \/ \E p \in Procs, target \in TrunkNames :
          ConcMergeCheckout(p, "feature", target)
    \/ \E p \in Procs : ConcMergeMerge(p)
    \/ RepoCreateWorktree("feature")
    \/ (Len(commits) = 1 /\ ExternalCommit("feature", "data", 2))

SpecConcMerge == InitRepo /\ [][NextConcMerge]_vars

\* SpecPath: the daemon under any configuration: queries and branch status
InitPath == api = "repo" /\ config \in Configs /\ now = 0 /\ Blank

NextPath ==
    \/ \E dflt \in TrunkNames : RepoInit("none", dflt)
    \/ \E name \in Names : RepoCreateBranch(name)
    \/ \E branch \in Names : RepoCreateWorktree(branch)
    \/ \E branch \in Names, kind \in QueryKinds : RepoQuery(branch, kind)
    \/ \E name \in Names : HTTPGetBranch(name)

SpecPath == InitPath /\ [][NextPath]_vars

\* SpecDaemon: one run of the daemon, from Start to Stop
NextDaemon ==
    \/ \E fault \in Faults, dflt \in TrunkNames : DaemonStart(fault, dflt)
    \/ MonitorTick
    \/ MonitorStop
    \/ HealthTick
    \/ HealthStop
    \/ HTTPListen
    \/ HTTPShutdown
    \/ HTTPRequest
    \/ Signal
    \/ DaemonStop
    \/ StopDone
    \/ StopTimeout

SpecDaemon == InitRepo /\ [][NextDaemon]_vars

\* SpecDaemonFair: a goroutine whose context is done is scheduled, and the
\* timer of Stop fires
SpecDaemonFair ==
    /\ SpecDaemon
    /\ WF_vars(MonitorStop)
    /\ WF_vars(HealthStop)
    /\ WF_vars(HTTPShutdown)
    /\ WF_vars(StopDone)
    /\ WF_vars(StopTimeout)

\* SpecSim: concurrent callers of one MockSimulator
NextSim ==
    \/ \E p \in Procs, ops \in OpLists : SimulateOperations(p, ops)
    \/ \E p \in Procs : GetMetrics(p)
    \/ \E p \in Procs : SimLock(p)
    \/ \E p \in Procs : SimAccess(p)
    \/ \E p \in Procs : SimUnlock(p)

SpecSim == InitRepo /\ [][NextSim]_vars

\* SpecSchema: first and later queries on branches, INSERT INTO demo among
\* the statements
NextSchema ==
    \/ \E dflt \in TrunkNames : RepoInit("none", dflt)
    \/ \E name \in Names : RepoCreateBranch(name)
    \/ \E branch \in Names, kind \in DemoKinds : RepoQuery(branch, kind)

SpecSchema == InitRepo /\ [][NextSchema]_vars

\* SpecTime: branches created and looked up while the clock runs
NextTime ==
    \/ \E dflt \in TrunkNames : RepoInit("none", dflt)
    \/ \E name \in Names : RepoCreateBranch(name)
    \/ \E name \in Names : RepoGetBranch(name)
    \/ RepoListBranches
    \/ Tick

SpecTime == InitRepo /\ [][NextTime]_vars

\* a server over git.Manager, nothing created yet
InitMgr == Init /\ api = "mgr"

\* SpecConcQuery: the server's handlers calling one database.Manager and
\* one git.Manager concurrently; ExecuteQuery runs in the steps another
\* call can come between.  The callers work on one branch besides the trunk.
QueryNames == {"feature"}

NextConcQuery ==
    \/ MgrInitDatabase("main")
    \/ \E b \in QueryNames : MgrCreateBranch(b)
    \/ \E b \in QueryNames : MgrDeleteBranch(b)
    \/ \E p \in Procs, b \in QueryNames, kind \in QueryKinds :
          ConcQueryCheck(p, b, kind)
    \/ \E p \in Procs : ConcQueryLookup(p)
    \/ \E p \in Procs : ConcQueryOpen(p)
    \/ \E p \in Procs : ConcQueryRun(p)

SpecConcQuery == InitMgr /\ [][NextConcQuery]_vars

\* SpecConn: sessions of the connect command against the server

NextConn ==
    \/ \E dflt \in TrunkNames : MgrInitDatabase(dflt)
    \/ MgrCreateBranch("feature")
    \/ \E connStr \in ConnStrings(MaxConnLen) : Connect(connStr)
    \/ \E kind \in QueryKinds : SessionQuery(kind)

SpecConn == InitMgr /\ [][NextConn]_vars

\* SpecParse: the merge step has failed with some diagnostic; MergeBranches
\* builds its result from it.  A line is a sequence of words, " " being
\* white space at either end.
MaxLines == 3

DiagLines == {<<"CONFLICT", "data">>,
              <<" ", "CONFLICT", "init.txt", " ">>,
              <<" ", " ", "CONFLICT">>,
              <<"Auto-merging", "data">>,
              <<" ", "fatal:", "data", " ">>,
              <<>>}

RECURSIVE Diagnostics(_)
\* the diagnostics of at most n lines
Diagnostics(n) ==
    IF n = 0 THEN {<<>>}
    ELSE Diagnostics(n - 1) \cup
         {Append(d, l) : d \in Diagnostics(n - 1), l \in DiagLines}

InitParse ==
    /\ api = "repo"
    /\ config = DefaultConfig
    /\ now = 0
    /\ daemon = NewDaemon
    /\ sim = NewMockSimulator
    /\ path = AbsRepoPath
    /\ handle = "open"
    /\ everInit = TRUE
    /\ initDone = TRUE
    /\ gitDir = TRUE
    /\ trunk = "master"
    /\ commits = <<[when |-> now, parents |-> {}, tree |-> InitialTree]>>
    /\ refs = [n \in Names |-> IF n = "master" THEN 1 ELSE 0]
    /\ head = "master"
    /\ merging = FALSE
    /\ worktrees = {}
    /\ dbFiles = [p \in DBPaths |-> NoFile]
    /\ conns = [n \in Names |-> NoConn]
    /\ pc = [p \in Procs |-> Idle]
    /\ session = NoSession
    /\ \E d \in Diagnostics(MaxLines) :
          last = [Result("git merge", None, None, ErrExit) EXCEPT !.message = d]

\* MergeBranches from the return of a failed merge step to its own return
MergeFailed ==
    /\ last.op = "git merge"
    /\ LET m == MergeResultOf(TRUE, last.message) IN
       Return([Result("MergeBranches", None, None, MergeErr(TRUE))
                 EXCEPT !.procs = 2, !.success = m.success,
                        !.message = m.message, !.conflicts = m.conflicts])
    /\ UNCHANGED <<api, config, daemon, sim, now, path, pc, session, handle, everInit, initDone, disk, conns>>

NextParse == MergeFailed

SpecParse == InitParse /\ [][NextParse]_vars

(* ---------------------------------------------------------------------- *)
(* Properties                                                              *)
(* ---------------------------------------------------------------------- *)

\* the database file a query on branch b works on, under the API in use
QueryPath(b) == IF api = "repo" THEN GetDBPath(WorktreePath(b)) ELSE GetBranchPath(b)

QueryOps == {"Query", "ExecuteQuery"}

\* C1 (branch isolation): two distinct branch names never resolve to the
\* same database file, and a write made through one branch is never seen
\* through another: the file of a branch, the connection kept for it and
\* the rows a query on it returns hold nothing written through another name.
BranchIsolation ==
    /\ \A a \in Names, b \in Names :
          a # b => /\ GetDBPath(GetWorktreePath(AbsRepoPath, a)) #
                         GetDBPath(GetWorktreePath(AbsRepoPath, b))
                   /\ GetBranchPath(a) # GetBranchPath(b)
    /\ \A b \in Names : /\ dbFiles[QueryPath(b)].rows \subseteq {b}
                        /\ conns[b].rows \subseteq {b}
    /\ last.op \in QueryOps => last.rows \subseteq {last.arg}

\* C1 witness: two branches have each been written through, and a read of
\* one of them has just returned its own row only
BranchIsolationWitness ==
    /\ last.op \in QueryOps
    /\ last.arg2 = "read"
    /\ last.rows = {last.arg}
    /\ \E a \in Names : /\ a # last.arg
                        /\ a \in dbFiles[QueryPath(a)].rows

\* C2 (worktree idempotence): a CreateWorktree that directly follows a
\* CreateWorktree of the same branch which returned a path returns that
\* same path and runs no 'git worktree add'.
WorktreeIdempotence ==
    (last.op = "CreateWorktree" /\ last.prevPath # <<>>)
        => /\ last.err = ErrNone
           /\ last.path = last.prevPath
           /\ last.adds = 0

\* C2 witness: the second of two CreateWorktree calls on one branch returned
WorktreeIdempotenceWitness ==
    /\ last.op = "CreateWorktree"
    /\ last.prevPath # <<>>
    /\ last.arg \in worktrees
    /\ last.path = WorktreePath(last.arg)

\* C3 (round trip): a GetBranch(X) that directly follows a successful
\* CreateBranch(X) of a new name X returns a Branch named X whose revision
\* is the revision the trunk had when X was created, whatever branch the
\* primary working copy has checked out.
CreateGetRoundTrip ==
    [][(/\ last.op = "CreateBranch"
        /\ last.err = ErrNone
        /\ last.fresh
        /\ last'.op = "GetBranch"
        /\ last'.arg = last.arg)
          => /\ last'.err = ErrNone
             /\ last'.name = last.arg
             /\ last'.hash = last.trunkRev]_vars

\* C4 (no overwrite): CreateBranch of a name that already has a reference
\* fails and leaves the reference where it was.
CreateExistingFails ==
    [][(/\ last'.op = "CreateBranch"
        /\ handle = "open"
        /\ refs[last'.arg] # 0)
          => /\ last'.err # ErrNone
             /\ refs'[last'.arg] = refs[last'.arg]]_vars

\* C5 (trunk protection): Manager.DeleteBranch of "main" fails with the
\* cannot-delete-main error and removes neither the reference of main nor
\* its database file nor any worktree directory.
DeleteMainFails ==
    [][(last'.op = "DeleteBranch" /\ last'.arg = "main")
          => /\ last'.err = ErrProtected
             /\ UNCHANGED <<refs, worktrees, dbFiles>>]_vars

\* C5 witness: DeleteBranch("main") was called on a store whose main branch
\* and main database file exist
DeleteMainFailsWitness ==
    /\ last.op = "DeleteBranch"
    /\ last.arg = "main"
    /\ refs["main"] # 0
    /\ dbFiles[MainDB].exists

\* C6 (trunk flag and deletion agree): DeleteBranch of an existing branch
\* that the system reports as trunk ("main" or "master") fails and leaves
\* its reference in place.
DeleteTrunkFails ==
    [][(/\ last'.op = "DeleteBranch"
        /\ IsMainName(last'.arg)
        /\ refs[last'.arg] # 0)
          => /\ last'.err # ErrNone
             /\ refs'[last'.arg] = refs[last'.arg]]_vars

\* C7 (idempotent Init): Init on a path where Init has already succeeded
\* succeeds and leaves every branch reference and the history as they were.
InitIdempotent ==
    [][(last'.op = "Init" /\ initDone)
          => /\ last'.err = ErrNone
             /\ refs' = refs
             /\ commits' = commits
             /\ head' = head]_vars

\* C7 witness: Init has succeeded again on a repository that already held a
\* branch besides the one it was created with
InitIdempotentWitness ==
    /\ last.op = "Init"
    /\ last.err = ErrNone
    /\ initDone
    /\ \E n \in Names : n # trunk /\ refs[n] # 0

\* C8 (a commit exists after Init): whenever Init has just succeeded, HEAD
\* resolves to a commit.
InitLeavesCommit ==
    (last.op = "Init" /\ last.err = ErrNone) => HeadHash # 0

RepoOps == {"CreateBranch", "GetBranch", "ListBranches", "CreateWorktree",
            "MergeBranches", "GetCurrentHash"}

\* C9 (lifecycle gate): on a Repository value for which no Init has
\* succeeded, each of CreateBranch, GetBranch, ListBranches, CreateWorktree,
\* MergeBranches and GetCurrentHash fails with the not-initialized error,
\* runs no subprocess and changes nothing on disk.
LifecycleGate ==
    [][(last'.op \in RepoOps /\ ~everInit)
          => /\ last'.err = ErrNotInitialized
             /\ last'.procs = 0
             /\ last'.adds = 0
             /\ UNCHANGED disk]_vars

\* C9 witness: an operation was refused on a fresh Repository value while
\* the path already held a repository with a commit
LifecycleGateWitness ==
    /\ last.op \in RepoOps
    /\ last.err = ErrNotInitialized
    /\ ~everInit
    /\ gitDir
    /\ HeadHash # 0

\* C10 (conflict detection): a merge whose checkout step succeeded reports
\* success = FALSE with a non-empty conflict list when the two branches
\* changed one file incompatibly, and success = TRUE with an empty conflict
\* list when their changes do not overlap.
ConflictDetection ==
    (last.op = "MergeBranches" /\ last.err = ErrNone)
        => /\ last.overlap = "conflict"
                => (~last.success /\ last.conflicts # <<>>)
           /\ last.overlap = "clean"
                => (last.success /\ last.conflicts = <<>>)

\* C10 witness: a merge of two branches that both changed one file has
\* been reported with its conflict lines
ConflictDetectionWitness ==
    /\ last.op = "MergeBranches"
    /\ last.err = ErrNone
    /\ last.overlap = "conflict"
    /\ last.conflicts # <<>>
    /\ merging

\* C11 (merge error classification): MergeBranches returns an error exactly
\* when the Repository is not initialized or the checkout of target fails;
\* a failed checkout gives success = FALSE, the checkout diagnostic as
\* message, no conflict list, and the merge step is not run (one subprocess,
\* history and references untouched); after a successful checkout the error
\* is nil whatever the merge step did.
MergeErrorClassification ==
    [][(last'.op = "MergeBranches")
          => /\ (last'.err # ErrNone)
                   <=> (handle = "nil" \/ ~CheckoutOk(last'.arg2))
             /\ (handle # "nil" /\ ~CheckoutOk(last'.arg2))
                   => /\ ~last'.success
                      /\ last'.message = <<LineCheckoutFailed(last'.arg2)>>
                      /\ last'.conflicts = <<>>
                      /\ last'.procs = 1
                      /\ UNCHANGED <<commits, refs, merging>>
             /\ (handle # "nil" /\ CheckoutOk(last'.arg2))
                   => last'.procs = 2]_vars

\* C11 witness: a merge into an existing branch was refused at the checkout
\* step, after an earlier merge had been reported as a conflict without error
MergeErrorClassificationWitness ==
    /\ last.op = "MergeBranches"
    /\ last.err = ErrExit
    /\ last.procs = 1
    /\ refs[last.arg2] # 0
    /\ merging

\* C12 (repository-level mutual exclusion): while a caller stands between
\* the checkout and the merge step of its MergeBranches, no CreateBranch
\* runs and no other caller runs a step of a MergeBranches.
MergeWindowExclusive ==
    [][\A p \in Procs :
          pc[p].at = "merge"
             => /\ last'.op # "CreateBranch"
                /\ ~(last'.op \in {"Checkout", "MergeBranches"} /\ last'.by # p)]_vars

\* C13 (per-branch provisioning serialization): a CreateWorktree that found
\* the branch unprovisioned but provisionable, and reaches its 'git worktree
\* add' after a concurrent CreateWorktree has provisioned the branch,
\* returns the same path as that call and no error.
ProvisioningSerialized ==
    [][\A p \in Procs :
          (/\ pc[p].at = "add"
           /\ pc[p].ok
           /\ pc'[p].at = "idle"
           /\ pc[p].source \in worktrees)
             => /\ last'.err = ErrNone
                /\ last'.path = WorktreePath(pc[p].source)]_vars

\* C14 (lazy provisioning): a worktree directory comes into existence only
\* during the resolution of its branch for a query (CreateWorktree, the
\* query command), never in a CreateBranch.
LazyProvisioning ==
    [][(worktrees' \ worktrees # {})
          => /\ last'.op \in {"CreateWorktree", "Query"}
             /\ worktrees' \ worktrees = {last'.arg}]_vars

\* C15 (GetBranch and missing references): on an initialized Repository
\* GetBranch(name) fails with the reference-not-found error exactly when
\* name has no reference, succeeds otherwise, and in either case changes
\* nothing.
GetBranchNotFound ==
    [][(last'.op = "GetBranch")
          => /\ UNCHANGED <<disk, handle, everInit, initDone, conns, pc>>
             /\ handle = "open"
                   => /\ (last'.err = ErrReferenceNotFound)
                            <=> (refs[last'.arg] = 0)
                      /\ refs[last'.arg] # 0
                            => (last'.err = ErrNone /\ last'.hash = refs[last'.arg])]_vars

\* C15 witness: GetBranch was refused for a name without reference on an
\* initialized Repository that has commits
GetBranchNotFoundWitness ==
    /\ last.op = "GetBranch"
    /\ last.err = ErrReferenceNotFound
    /\ handle = "open"
    /\ refs[last.arg] = 0
    /\ HeadHash # 0

\* C16 (init / feature scenario): after Init on an empty directory,
\* CreateBranch("feature") and a first CreateWorktree("feature"),
\* ListBranches returns exactly the trunk "main" with isMain = TRUE and
\* "feature" with isMain = FALSE; the resolved database path is
\* <root>/worktrees/feature/db.sqlite and no file exists there yet.
InitFeatureScenario ==
    (/\ last.op = "ListBranches"
     /\ last.err = ErrNone
     /\ {n \in Names : refs[n] # 0} = {trunk, "feature"}
     /\ worktrees = {"feature"})
        => /\ last.branches = {Branch("main", refs["main"]),
                               Branch("feature", refs["feature"])}
           /\ \A b \in last.branches : b.isMain <=> b.name = "main"
           /\ GetDBPath(GetWorktreePath(AbsRepoPath, "feature"))
                 = AbsRepoPath \o <<"worktrees", "feature", "db.sqlite">>
           /\ ~dbFiles[GetDBPath(GetWorktreePath(AbsRepoPath, "feature"))].exists

\* C17 (DeleteBranch removes reference and directory): right after a
\* Manager.DeleteBranch(b) of a non-trunk branch b has returned nil, b is
\* not in ListBranches, BranchExists(b) is false and worktrees/<b> does not
\* exist.
DeleteRemovesBranch ==
    (last.op = "DeleteBranch" /\ last.err = ErrNone /\ ~IsMainName(last.arg))
        => /\ last.arg \notin MgrBranchList
           /\ ~BranchExists(last.arg)
           /\ ~DirExists(BranchDir(last.arg))
           /\ ~dbFiles[GetBranchPath(last.arg)].exists

\* C17 witness: a branch that existed and had been written to was deleted
DeleteRemovesBranchWitness ==
    /\ last.op = "DeleteBranch"
    /\ last.err = ErrNone
    /\ ~IsMainName(last.arg)
    /\ ~last.fresh
    /\ conns[last.arg].state = "stale"

\* the strings without separator
NoAt(str) == \A i \in 1..Len(str) : str[i] # "@"

\* C18 (connection-string split): a connection string without "@" gives
\* the whole string as database and "main" as branch; a string db@br gives
\* db and br; and a statement whose session has an empty branch is
\* executed against "main".
ConnectionStringSplit ==
    /\ (session # NoSession /\ NoAt(session.conn))
          => (session.db = session.conn /\ session.branch = <<"main">>)
    /\ \A i \in 1..Len(session.conn) :
          (/\ session.conn[i] = "@"
           /\ NoAt(SubSeq(session.conn, 1, i - 1))
           /\ NoAt(SubSeq(session.conn, i + 1, Len(session.conn))))
             => /\ session.db = SubSeq(session.conn, 1, i - 1)
                /\ session.branch = SubSeq(session.conn, i + 1, Len(session.conn))
    /\ (last.op = "ExecuteQuery" /\ session.branch = <<>>) => last.arg = "main"

\* C18 witness: in a session opened with "db@" a statement has run on main
ConnectionStringSplitWitness ==
    /\ session.conn = <<"db", "@">>
    /\ session.branch = <<>>
    /\ last.op = "ExecuteQuery"
    /\ last.err = ErrNone
    /\ last.arg = "main"

\* a line of the diagnostic carries the conflict marker
HasMarker(line) == "CONFLICT" \in {line[i] : i \in 1..Len(line)}

\* C19 (MergeResult shape): in every MergeBranches result success = TRUE
\* implies an empty conflict list and a non-empty conflict list implies
\* success = FALSE; when the merge step failed without conflict (the source
\* names no revision) and no line of its diagnostic carries the conflict
\* marker, success = FALSE, the conflict list is empty and message is the
\* diagnostic as git printed it.
MergeResultShape ==
    (last.op = "MergeBranches")
        => /\ last.success => last.conflicts = <<>>
           /\ last.conflicts # <<>> => ~last.success
           /\ (/\ last.procs = 2
               /\ last.overlap = None
               /\ \A i \in 1..Len(last.message) : ~HasMarker(last.message[i]))
                 => /\ ~last.success
                    /\ last.conflicts = <<>>
                    /\ last.message = <<LineNotMergeable(last.arg)>>

\* C19 witness: a merge step has failed without conflict (the source
\* does not exist) after its checkout had succeeded
MergeResultShapeWitness ==
    /\ last.op = "MergeBranches"
    /\ last.procs = 2
    /\ ~last.success
    /\ last.conflicts = <<>>
    /\ last.message = <<LineNotMergeable(last.arg)>>

\* a line without the white space at its ends
Stripped(line) ==
    LET solid == {i \in 1..Len(line) : line[i] # " "} IN
    IF solid = {} THEN <<>>
    ELSE SubSeq(line, CHOOSE i \in solid : \A j \in solid : i <= j,
                      CHOOSE i \in solid : \A j \in solid : j <= i)

\* the positions of the marked lines of a diagnostic
Marked(d) == {i \in 1..Len(d) : HasMarker(d[i])}

\* C20 (conflict extraction): when the merge step failed with a diagnostic
\* that carries the conflict marker, the conflict list holds the marked
\* lines of the diagnostic, one entry per marked line, in the order of the
\* diagnostic, each without the white space at its ends and otherwise as
\* printed.
ConflictExtraction ==
    (last.op = "MergeBranches" /\ last.procs = 2 /\ Marked(last.message) # {})
        => /\ Len(last.conflicts) = Cardinality(Marked(last.message))
           /\ \A k \in 1..Len(last.conflicts) :
                 \E i \in Marked(last.message) :
                    /\ Cardinality({j \in Marked(last.message) : j <= i}) = k
                    /\ last.conflicts[k] = Stripped(last.message[i])

\* C20 witness: two marked lines with white space around them, and an
\* unmarked line between them, have been extracted
ConflictExtractionWitness ==
    /\ last.op = "MergeBranches"
    /\ last.message = << <<" ", "CONFLICT", "init.txt", " ">>,
                         <<"Auto-merging", "data">>,
                         <<" ", " ", "CONFLICT">> >>
    /\ last.conflicts = << <<"CONFLICT", "init.txt">>, <<"CONFLICT">> >>

\* C21 (merge frame): a MergeBranches(source, target), however it is
\* interleaved with other MergeBranches and CreateBranch calls, leaves the
\* revision of source and of every third branch as it was: its merge step
\* moves no reference but target's.
MergeTouchesTargetOnly ==
    [][(last'.op = "MergeBranches")
          => \A n \in Names : n # last'.arg2 => refs'[n] = refs[n]]_vars

\* C22 (no restore after merge): after a MergeBranches(source, target)
\* whose checkout succeeded, whatever its merge step did, the primary
\* working copy is on target: a GetCurrentHash that follows returns
\* target's revision and a CreateBranch that follows points the new
\* reference at it.
MergeLeavesHeadOnTarget ==
    [][(last.op = "MergeBranches" /\ last.procs = 2)
          => /\ head = last.arg2
             /\ last'.op = "GetCurrentHash"
                   => (last'.err = ErrNone /\ last'.hash = refs[last.arg2])
             /\ last'.op = "CreateBranch"
                   => (last'.err = ErrNone /\ last'.hash = refs[last.arg2])]_vars

\* C22 witness: after a merge that ended in a conflict, GetCurrentHash has
\* returned the revision of the merge target, which is not the trunk
MergeLeavesHeadOnTargetWitness ==
    /\ last.op = "GetCurrentHash"
    /\ last.err = ErrNone
    /\ merging
    /\ head # trunk
    /\ last.hash = refs[head]
    /\ refs[head] # refs[trunk]

\* C23 (checkout availability): for every existing branch b, on an
\* initialized Repository, CreateWorktree(b) returns its path without error
\* and the checkout step of MergeBranches(_, b) succeeds, whichever working
\* copy has b checked out.
CheckoutAvailable ==
    [][/\ (last'.op = "CreateWorktree" /\ handle = "open" /\ refs[last'.arg] # 0)
             => (last'.err = ErrNone /\ last'.path = WorktreePath(last'.arg))
       /\ (last'.op = "MergeBranches" /\ handle = "open" /\ refs[last'.arg2] # 0)
             => (last'.err = ErrNone /\ last'.procs = 2)]_vars

\* C24 (worktree of an unborn branch): CreateWorktree(b) on an initialized
\* Repository, for a name b that has no reference and no worktree directory,
\* creates the reference b and then the worktree whenever there is a
\* revision to create b from; when it returns success b is a branch and its
\* directory exists, and when it fails neither the reference nor the
\* directory exists.
WorktreeCreatesBranch ==
    [][(/\ last'.op = "CreateWorktree"
        /\ handle = "open"
        /\ refs[last'.arg] = 0
        /\ ~DirExists(WorktreePath(last'.arg)))
          => /\ HeadHash # 0 => last'.err = ErrNone
             /\ last'.err = ErrNone
                   => (refs'[last'.arg] # 0 /\ last'.arg \in worktrees')
             /\ last'.err # ErrNone
                   => (refs'[last'.arg] = 0 /\ last'.arg \notin worktrees')]_vars

\* C25 (worktree persistence): a worktree directory that exists keeps
\* existing, at the same path, through every call except a DeleteBranch of
\* its branch; Init, CreateBranch, GetBranch, ListBranches, CreateWorktree
\* of any branch, MergeBranches and GetCurrentHash never remove it.
WorktreePersistence ==
    [][\A b \in worktrees :
          \/ (b \in worktrees' /\ DirExists(WorktreePath(b))')
          \/ (last'.op = "DeleteBranch" /\ last'.arg = b)]_vars

WorktreePersistenceWitness ==
    /\ last.op = "MergeBranches" /\ last.procs = 2
    /\ "feature" \in worktrees /\ "master" \in worktrees

\* C26 (CreateBranch frame): a successful CreateBranch(X) of a new name X,
\* under either manager, adds the reference X and changes nothing else: the
\* revision of every other branch, the branch HEAD names and the set of
\* worktree directories are as before.
CreateBranchFrame ==
    [][(last'.op = "CreateBranch" /\ last'.err = ErrNone /\ last'.fresh)
          => /\ refs'[last'.arg] # 0
             /\ \A n \in Names \ {last'.arg} : refs'[n] = refs[n]
             /\ head' = head
             /\ worktrees' = worktrees]_vars

\* C27 (path resolution agreement): under every configuration, the path
\* CreateWorktree returns for a branch is GetWorktreePath(root, branch), and
\* the database file a query opens is the one branch status reports for
\* that branch.
PathResolutionAgreement ==
    /\ (last.op = "CreateWorktree" /\ last.err = ErrNone)
          => last.path = GetWorktreePath(GetRepoPath, last.arg)
    /\ (last.op = "Query" /\ last.err = ErrNone)
          => last.path = GetDBPath(GetWorktreePath(GetRepoPath, last.arg))

\* C28 (trunk uniqueness): on an initialized Repository, whatever names
\* CreateBranch has been called with, ListBranches reports exactly one
\* branch with isMain = TRUE, and a branch has isMain = TRUE exactly when
\* its name is the trunk's.
TrunkUniqueness ==
    (last.op = "ListBranches" /\ last.err = ErrNone)
       => /\ Cardinality({b \in last.branches : b.isMain}) = 1
          /\ \A b \in last.branches : b.isMain <=> b.name = trunk

\* C29 (createdAt consistency): the Branch a successful CreateBranch(X)
\* returns carries as createdAt the timestamp of the commit it points at,
\* which is the createdAt that GetBranch(X) and ListBranches report for X.
CreatedAtConsistency ==
    [][/\ (last'.op = "CreateBranch" /\ last'.err = ErrNone)
             => (/\ last'.hash \in DOMAIN commits'
                 /\ last'.createdAt = commits'[last'.hash].when)
       /\ (/\ last.op = "CreateBranch" /\ last.err = ErrNone
           /\ last'.op = "GetBranch" /\ last'.arg = last.arg
           /\ last'.err = ErrNone)
             => last'.createdAt = last.createdAt
       /\ (/\ last.op = "CreateBranch" /\ last.err = ErrNone
           /\ last'.op = "ListBranches" /\ last'.err = ErrNone)
             => \A b \in last'.branches :
                   b.name = last.arg => b.createdAt = last.createdAt]_vars

\* C30 (Manager keeps HEAD on a branch): in git.Manager, once InitDatabase
\* has made the first commit, after every InitDatabase, CreateBranch and
\* DeleteBranch the branch HEAD names has a reference, and CreateBranch of
\* a name that has no reference succeeds, also right after the branch
\* created last was deleted.
ManagerHeadValid ==
    [][(api = "mgr" /\ Len(commits) > 0)
          => /\ refs'[head'] # 0
             /\ (last'.op = "CreateBranch" /\ refs[last'.arg] = 0)
                   => last'.err = ErrNone]_vars

\* C31 (Manager: state unchanged on error): a Manager.CreateBranch(b) that
\* returns an error has added neither the reference b nor the directory
\* worktrees/b; a Manager.DeleteBranch(b) that returns an error has removed
\* neither b's reference nor b's directory.
ManagerErrorAtomic ==
    [][api = "mgr" =>
         /\ (last'.op = "CreateBranch" /\ last'.err # ErrNone)
               => /\ refs[last'.arg] = 0 => refs'[last'.arg] = 0
                  /\ last'.arg \notin worktrees => last'.arg \notin worktrees'
         /\ (last'.op = "DeleteBranch" /\ last'.err # ErrNone)
               => /\ refs[last'.arg] # 0 => refs'[last'.arg] # 0
                  /\ last'.arg \in worktrees => last'.arg \in worktrees']_vars

\* C32 (handle / path consistency): after any sequence of Init calls on
\* one Repository value, the stored path is the path of the repository the
\* handle was opened on (in the model a handle is only ever opened on
\* AbsRepoPath), and an Init that returns an error leaves both the path
\* and the handle as they were.
HandlePathConsistent ==
    [][/\ handle' = "open" => path' = AbsRepoPath
       /\ (last'.op = "Init" /\ last'.err # ErrNone)
             => (path' = path /\ handle' = handle)]_vars

\* C33 (no query on a branch that does not exist): an ExecuteQuery on a
\* branch absent from the branch list returns 'branch does not exist' and
\* neither opens nor caches a connection; and no ExecuteQuery on b, also
\* one already in progress when DeleteBranch(b) ran, completes successfully
\* while b has no reference.
QueryOnlyExistingBranch ==
    [][/\ (last' # last /\ last'.op = "ExecuteQuery" /\ last'.err = ErrNoBranch)
             => conns' = conns
       /\ \A p \in Procs :
             (pc[p].at = "run" /\ pc'[p].at = "idle" /\ last'.err = ErrNone)
                => refs[pc[p].source] # 0]_vars

\* C34 (connection-cache freshness): the connection cached for an existing
\* branch is never one to a database file that has been removed, and an
\* ExecuteQuery that succeeds has run on a connection to the file now at
\* the branch's path; in particular not on one opened before a
\* DeleteBranch(b) that a CreateBranch(b) followed.
CacheFreshness ==
    /\ \A b \in Names : BranchExists(b) => conns[b].state # "stale"
    /\ (last.op = "ExecuteQuery" /\ last.err = ErrNone)
          => conns[last.arg].state = "live"

\* C35 (connection-cache race freedom): with handlers calling ExecuteQuery
\* concurrently, no caller writes the conns map while another caller reads
\* or writes it, and for each key at most one connection is ever opened.
CacheRaceFree ==
    /\ \A p \in Procs, q \in Procs : ~MapRace(p, q)
    /\ \A b \in Names : conns[b].opens <= 1

\* C36 (first-query schema initialization): a query that reaches a branch
\* whose database file does not exist yet has the schema initialized after
\* the database is opened and before the statement runs, so that the file
\* holds the table demo afterwards and a first INSERT INTO demo succeeds.
FirstQueryInitSchema ==
    [][(/\ last'.op = "Query"
        /\ last'.path # <<>>
        /\ ~dbFiles[last'.path].exists)
          => /\ dbFiles'[last'.path].schema
             /\ last'.arg2 = "demo" => last'.err = ErrNone]_vars

\* C37 (daemon start ordering): the maintenance loop, the health-check loop
\* and the HTTP server run only after Repository.Init has returned success;
\* when Init fails Start returns the error and none of them is started; no
\* loop and no request handler is ever answered 'repository not
\* initialized'.
DaemonStartOrdering ==
    /\ (daemon.mon # "off" \/ daemon.health # "off" \/ daemon.http # "off")
          => (daemon.start = "ok" /\ handle = "open")
    /\ daemon.start = "failed"
          => (daemon.mon = "off" /\ daemon.health = "off" /\ daemon.http = "off")
    /\ last.err # ErrNotInitialized

\* C37 witness: the daemon is serving and its maintenance loop has just
\* listed the branches
DaemonStartOrderingWitness ==
    /\ daemon.mon = "wait"
    /\ daemon.http = "serving"
    /\ last.op = "ListBranches"
    /\ last.err = ErrNone
    /\ last.branches # {}

\* C38 (daemon shutdown terminates): once the context is cancelled the
\* maintenance loop, the health-check loop and the HTTP server goroutine
\* each eventually return, and a Stop that is waiting eventually returns.
DaemonShutdownTerminates ==
    /\ (daemon.ctx = "cancelled") ~> AllDone
    /\ (daemon.stop = "waiting") ~> (daemon.stop = "returned")

\* C38 witness: Stop has returned after the three goroutines, which had
\* been started, returned
DaemonShutdownTerminatesWitness ==
    /\ daemon.stop = "returned"
    /\ daemon.mon = "done"
    /\ daemon.health = "done"
    /\ daemon.http = "done"

\* C39 (MockSimulator lock discipline): whenever a caller is inside a
\* section that writes the metrics, branches or dbs map it holds mu
\* exclusively, and no caller writes a map while another caller reads or
\* writes it.
SimLockDiscipline ==
    /\ \A p \in Procs :
          (sim.at[p] = "access" /\ SimWrites(p) # {}) => sim.writer = p
    /\ \A p \in Procs, q \in Procs : ~SimRace(p, q)

====
